---------------------------- MODULE Spec2Model ----------------------------
(***************************************************************************)
(* RecoMart ingestion pipeline: the API request loop, the CSV ingestion    *)
(* retry recursion, row deduplication, the partitioned data lake and its   *)
(* "latest" files.                                                         *)
(*                                                                         *)
(* The pipeline is one process: at most one ingestion call is in flight,   *)
(* so the model runs the calls one after the other (variable op).          *)
(***************************************************************************)
EXTENDS Integers, Sequences, FiniteSets, TLC

(***************************************************************************)
(* Bounds of the model.                                                    *)
(***************************************************************************)
MaxRetryAttempts == 2
MaxRows == 3
MaxCalls == 2
MaxClock == 1
MaxTicks == 2
MaxLines == 6

(***************************************************************************)
(* Program constants.                                                      *)
(***************************************************************************)
\* config['api_ingestion']['retry_delay'] and config['ingestion']['retry_delay']
ApiRetryDelay == 5
CsvRetryDelay == 5

\* A result not returned yet.
NoResult == [success |-> FALSE, error |-> "not_returned"]

VARIABLES
    op,                  \* the call in flight: "none", "api", "events", "item_properties"
    pc,                  \* where the call in flight is
    api_retry_attempts,  \* config['api_ingestion']['retry_attempts'] as the call reads it
    method,              \* endpoint_config['method'] of the call in flight
    attempt,             \* make_api_request: the loop variable (1-based)
    retries_total,       \* urllib3 Retry.total left inside one session.request
    api_outcomes,        \* what each session.request call gave the loop
    wire_requests,       \* HTTP requests put on the wire by the call
    last_wire,           \* what the latest request on the wire gave
    api_sleeps,          \* the time.sleep delays of the call, in order
    api_result,          \* the (success, error_message) tuple returned
    dedup_policy,        \* dedup step: which ingestion runs it, and whether it ran
    dedup_in,            \* dedup step: the DataFrame before drop_duplicates
    dedup_out,           \* dedup step: the DataFrame after it
    duplicates_removed,  \* dedup step: initial_records - len(df_dedupe)
    path_args,           \* path builder: the arguments of two calls
    path_out,            \* path builder: the two paths returned
    max_retries,         \* ingest_*_csv: config['ingestion']['retry_attempts'] as the call reads it
    retry_count,         \* ingest_*_csv: the retry_count argument of the attempt
    csv_outcomes,        \* ingest_*_csv: how each attempt of the call ended
    csv_sleeps,          \* ingest_*_csv: the time.sleep delays of the call
    result,              \* the result dict the ingestion call returns
    now,                 \* the clock: seconds since the start of the run
    lake,                \* the files under data/raw/source=.../: the stored objects
    latest,              \* data/raw/<data type>_latest.parquet, per data type
    calls_left,          \* ingestion calls the run has still to make
    succeeded,           \* per data type, the batches of the calls that returned success
    tree,                \* cleanup: the partition directories under data/<tier>/
    tree_before,         \* cleanup: the tree when cleanup_old_data was called
    dry_run,             \* cleanup: the dry_run argument
    cleanup_now,         \* cleanup: datetime.now() of the call
    cleanup_pc,          \* cleanup: where cleanup_old_data is
    cleanup_actions,     \* cleanup: the list cleanup_actions
    total_size,          \* cleanup: sum of the sizes in cleanup_actions
    rmtree_calls,        \* cleanup: the shutil.rmtree calls made, in order, with their outcome
    sched_running,       \* scheduler: self.running
    jobs_status,         \* scheduler: self.jobs_status, per job name
    status_file,         \* scheduler: ingestion/logs/scheduler_status.json
    schedule_jobs,       \* scheduler: schedule.jobs, the registered triggers
    sched_pc,            \* scheduler: where start() is
    batch_left,          \* scheduler: due triggers of this run_pending() still to run
    current_job,         \* scheduler: the job name _run_job_safe is running
    ticks,               \* scheduler: iterations of the poll loop begun
    stop_seen,           \* scheduler: a shutdown signal has been handled
    inflight_at_stop,    \* scheduler: the job that was running when it was handled
    last_result,         \* scheduler: the kind of result the last completed run gave
    orch_pc,             \* orchestrator: where run_full_ingestion is
    csv_outcome,         \* orchestrator: what run_full_csv_ingestion() did
    api_outcome,         \* orchestrator: what api_ingester.run_ingestion() did
    pipeline_results,    \* orchestrator: the pipeline_results dict
    pipeline_metadata,   \* orchestrator: the pipeline_execution_<timestamp>.json file
    orch_now,            \* orchestrator: seconds since run_full_ingestion was called
    orch_trace,          \* orchestrator: the steps of the run so far, with their times
    src_lines,           \* events.csv: its data lines, as ingest_events_csv finds them
    chunk_size,          \* config['ingestion']['chunk_size']
    pointer_write,       \* the to_parquet call on a latest file that is under way
    reader_saw,          \* what a reader of a latest file found, read by read
    organize_call,       \* a direct call of organize_data: its arguments and its outcome
    phase_run,           \* run_full_csv_ingestion / run_ingestion: sources left, results
    schedule_call        \* schedule_job: its arguments and the triggers it registered

apiVars == <<api_retry_attempts, method, attempt, retries_total,
             api_outcomes, wire_requests, last_wire, api_sleeps, api_result>>

dedupVars == <<dedup_policy, dedup_in, dedup_out, duplicates_removed>>

pathVars == <<path_args, path_out>>

csvVars == <<max_retries, retry_count, csv_outcomes, csv_sleeps>>

lakeVars == <<now, lake, latest>>

callVars == <<op, pc, result, calls_left, succeeded>>

cleanupVars == <<tree, tree_before, dry_run, cleanup_now, cleanup_pc, cleanup_actions,
                 total_size, rmtree_calls>>

schedVars == <<sched_running, jobs_status, status_file, schedule_jobs, sched_pc,
               batch_left, current_job, ticks, stop_seen, inflight_at_stop, last_result>>

orchVars == <<orch_pc, csv_outcome, api_outcome, pipeline_results, pipeline_metadata,
              orch_now, orch_trace>>

readVars == <<src_lines, chunk_size>>

ptrVars == <<pointer_write, reader_saw>>

phaseVars == <<organize_call, phase_run>>

intervalVars == <<schedule_call>>

vars == <<apiVars, dedupVars, pathVars, csvVars, lakeVars, callVars, cleanupVars,
          schedVars, orchVars, readVars, ptrVars, phaseVars, intervalVars>>

(***************************************************************************)
(* Row deduplication (pandas DataFrame.drop_duplicates)                    *)
(***************************************************************************)
\* A DataFrame is the sequence of its rows, a row a record of its columns.
BoundedSeq(S, n) == UNION {[1..k -> S] : k \in 0..n}

\* The columns a row is compared on: all of them (subset = None) or the
\* named ones.
KeyOf(row, subset) ==
    IF subset = {} THEN row ELSE [c \in subset |-> row[c]]

\* duplicated(keep='first'): scan the rows first to last with the keys seen so
\* far; a row is flagged when its key was seen already.
RECURSIVE ScanFirst(_, _, _, _)
ScanFirst(df, subset, i, seen) ==
    IF i > Len(df) THEN <<>>
    ELSE <<KeyOf(df[i], subset) \in seen>>
         \o ScanFirst(df, subset, i + 1, seen \cup {KeyOf(df[i], subset)})

\* duplicated(keep='last'): the same scan last to first.
RECURSIVE ScanLast(_, _, _, _)
ScanLast(df, subset, i, seen) ==
    IF i < 1 THEN <<>>
    ELSE ScanLast(df, subset, i - 1, seen \cup {KeyOf(df[i], subset)})
         \o <<KeyOf(df[i], subset) \in seen>>

Duplicated(df, subset, keep) ==
    IF keep = "first" THEN ScanFirst(df, subset, 1, {})
    ELSE ScanLast(df, subset, Len(df), {})

\* df[~flags]: the rows that are not flagged, in their order.
RECURSIVE SelectNot(_, _, _)
SelectNot(df, flags, i) ==
    IF i > Len(df) THEN <<>>
    ELSE (IF flags[i] THEN <<>> ELSE <<df[i]>>) \o SelectNot(df, flags, i + 1)

drop_duplicates(df, subset, keep) ==
    SelectNot(df, Duplicated(df, subset, keep), 1)

EventsDedupe_KeepsLast(df) == drop_duplicates(df, {}, "last")

\* ingest_events_csv: df.drop_duplicates()
EventsDedupe(df) == drop_duplicates(df, {}, "first")

ItemsDedupe_KeepsFirst(df) == drop_duplicates(df, {"itemid", "property"}, "first")

\* ingest_item_properties_csv:
\* combined_df.drop_duplicates(subset=['itemid', 'property'], keep='last')
ItemsDedupe(df) == drop_duplicates(df, {"itemid", "property"}, "last")

\* Rows of the two file sources the dedup step is run on.
EventRows ==
    [timestamp : {1433221332}, itemid : {1, 2}, visitorid : {7},
     event : {"view", "addtocart"}, transactionid : {"NaN"}]
ItemRows == [itemid : {1, 2}, property : {"categoryid", "available"}, value : {"0", "1"}]

\* The dedup step of ingest_events_csv on the DataFrame dedup_in.
DedupeEventsStep ==
    /\ dedup_policy = "events_pending"
    /\ dedup_policy' = "events"
    /\ dedup_out' = EventsDedupe(dedup_in)
    /\ duplicates_removed' = Len(dedup_in) - Len(EventsDedupe(dedup_in))
    /\ UNCHANGED <<dedup_in, apiVars, pathVars, csvVars, lakeVars, callVars,
                   cleanupVars, schedVars, orchVars,
                   readVars, ptrVars, phaseVars, intervalVars>>

\* The dedup step of ingest_item_properties_csv on the DataFrame dedup_in.
DedupeItemsStep ==
    /\ dedup_policy = "items_pending"
    /\ dedup_policy' = "items"
    /\ dedup_out' = ItemsDedupe(dedup_in)
    /\ duplicates_removed' = Len(dedup_in) - Len(ItemsDedupe(dedup_in))
    /\ UNCHANGED <<dedup_in, apiVars, pathVars, csvVars, lakeVars, callVars,
                   cleanupVars, schedVars, orchVars,
                   readVars, ptrVars, phaseVars, intervalVars>>

(***************************************************************************)
(* create_partitioned_path                                                 *)
(***************************************************************************)
\* A naive datetime, and the "no timestamp given" argument (None).
NoTimestamp ==
    [year |-> 0, month |-> 0, day |-> 0, hour |-> 0, minute |-> 0,
     second |-> 0, microsecond |-> 0]

\* %m, %d, %H, %M, %S: two digits, zero-padded.
Pad2(n) == IF n < 10 THEN "0" \o ToString(n) ELSE ToString(n)

Strftime_DropsSeconds(ts) ==
    ToString(ts.year) \o Pad2(ts.month) \o Pad2(ts.day) \o "_"
        \o Pad2(ts.hour) \o Pad2(ts.minute)

\* timestamp.strftime("%Y%m%d_%H%M%S"), for years of four digits.
Strftime(ts) ==
    ToString(ts.year) \o Pad2(ts.month) \o Pad2(ts.day) \o "_"
        \o Pad2(ts.hour) \o Pad2(ts.minute) \o Pad2(ts.second)

\* self.base_path: Path(config['data']['raw_path']).parent
base_path == "data"

\* create_partitioned_path with the timestamp given, or taken from the
\* clock (nowts) when it is None.
create_partitioned_path(base_dir, data_type, source, timestamp, nowts) ==
    LET ts == IF timestamp = NoTimestamp THEN nowts ELSE timestamp
    IN base_path \o "/" \o base_dir \o "/source=" \o source
           \o "/type=" \o data_type \o "/timestamp=" \o Strftime(ts)

\* The datetimes the path builder is called with.
PathTimestamps ==
    [year : {2024}, month : {1, 11}, day : {1, 11}, hour : {0, 1},
     minute : {1, 59}, second : {0, 1, 11}, microsecond : {0, 999999}]
PathTiers == {"raw", "processed"}
PathDataTypes == {"events", "products"}
PathSources == {"csv_ingestion", "api_ingestion"}

\* Two calls of create_partitioned_path with the arguments drawn in path_args.
CallCreatePartitionedPath ==
    /\ path_out = <<>>
    /\ path_out' =
         <<create_partitioned_path(path_args.tier, path_args.data_type,
                                   path_args.source, path_args.ts1, NoTimestamp),
           create_partitioned_path(path_args.tier, path_args.data_type,
                                   path_args.source, path_args.ts2, NoTimestamp)>>
    /\ UNCHANGED <<path_args, apiVars, dedupVars, csvVars, lakeVars, callVars,
                   cleanupVars, schedVars, orchVars,
                   readVars, ptrVars, phaseVars, intervalVars>>

\* datetime comparison and subtraction: whole seconds from the start of the
\* year 2024 to a datetime of that year.
DaysBeforeMonth2024 == <<0, 31, 60, 91, 121, 152, 182, 213, 244, 274, 305, 335>>
SecondsInto2024(ts) ==
    (((DaysBeforeMonth2024[ts.month] + ts.day - 1) * 24 + ts.hour) * 60 + ts.minute) * 60
        + ts.second

(***************************************************************************)
(* The clock                                                               *)
(***************************************************************************)
\* The wall clock when the run starts (2024-01-11 01:59:58).
ClockStart == [hour |-> 1, minute |-> 59, second |-> 58]

\* datetime.now() when the clock shows t seconds.
DatetimeNow(t) ==
    LET s == (ClockStart.hour * 60 + ClockStart.minute) * 60 + ClockStart.second + t
    IN [year |-> 2024, month |-> 1, day |-> 11, hour |-> (s \div 3600) % 24,
        minute |-> (s \div 60) % 60, second |-> s % 60, microsecond |-> 0]

(***************************************************************************)
(* organize_data and the "latest" files                                    *)
(***************************************************************************)
DataTypes == {"events", "item_properties", "products"}

\* The I/O step of a save that fails, if any: the mkdir, the data file's
\* to_parquet or the sidecar's write inside organize_data; the open or the
\* write of the latest file; the archive copy. "read" is a failure while the
\* source file is read.
IoFaults == {"none", "read", "mkdir", "data_write", "sidecar_write",
             "latest_open", "latest_write", "archive_copy"}

OrganizeRaises(fault) == fault \in {"mkdir", "data_write", "sidecar_write"}

\* filename of organize_data
filename(data_type, source, timestamp) ==
    data_type \o "_" \o source \o "_" \o Strftime(timestamp) \o ".parquet"

output_file_NamedToTheMicrosecond(data_type, source, timestamp) ==
    create_partitioned_path("raw", data_type, source, timestamp, timestamp)
        \o "/" \o data_type \o "_" \o source \o "_" \o Strftime(timestamp)
        \o "_" \o ToString(timestamp.microsecond) \o ".parquet"

\* output_file of organize_data: partitioned_path / filename
output_file(data_type, source, timestamp) ==
    create_partitioned_path("raw", data_type, source, timestamp, timestamp)
        \o "/" \o filename(data_type, source, timestamp)

organize_data_AlwaysSidecar(lk, data, data_type, source, timestamp, metadata, fault) ==
    IF fault = "mkdir" THEN lk
    ELSE LET f == output_file(data_type, source, timestamp)
             obj == [path |-> f,
                     data_type |-> data_type,
                     rows |-> IF fault = "data_write" THEN <<>> ELSE data,
                     complete |-> fault # "data_write",
                     sidecar |-> fault \notin {"data_write", "sidecar_write"}]
         IN {o \in lk : o.path # f} \cup {obj}

\* The lake after organize_data(data, data_type, source, timestamp, metadata)
\* on lake lk: nothing new when the mkdir fails, else the data file (whole, or
\* cut short when its write fails) with its sidecar (when metadata is not
\* empty and no earlier write failed), in place of any file of the same path.
organize_data(lk, data, data_type, source, timestamp, metadata, fault) ==
    IF fault = "mkdir" THEN lk
    ELSE LET f == output_file(data_type, source, timestamp)
             obj == [path |-> f,
                     data_type |-> data_type,
                     rows |-> IF fault = "data_write" THEN <<>> ELSE data,
                     complete |-> fault # "data_write",
                     sidecar |-> /\ DOMAIN metadata # {}
                                 /\ fault \notin {"data_write", "sidecar_write"}]
         IN {o \in lk : o.path # f} \cup {obj}

\* A latest file: absent, written whole, or cut short by a failed write.
NoFile == [state |-> "absent", rows |-> <<>>]
Written(rows) == [state |-> "written", rows |-> rows]
Truncated == [state |-> "truncated", rows |-> <<>>]

WriteLatest_KeepsExisting(old, data, fault) ==
    CASE fault = "latest_open" -> old
      [] fault = "latest_write" -> Truncated
      [] OTHER -> IF old = NoFile THEN Written(data) ELSE old

\* df.to_parquet(latest_path, index=False) over the file old.
WriteLatest(old, data, fault) ==
    CASE fault = "latest_open" -> old
      [] fault = "latest_write" -> Truncated
      [] OTHER -> Written(data)

\* How far an attempt that ended with outcome o got.
ReachedOrganize(o) == o \in {"organize_failed", "latest_failed", "archive_failed", "success"}
ReachedLatest_EvenIfOrganizeFailed(o) == ReachedOrganize(o)
ReachedLatest(o) == o \in {"latest_failed", "archive_failed", "success"}

\* The lake and the latest files after the save steps of an attempt that
\* ended with outcome o (organize_data, then the latest file).
LakeAfter(o, data, data_type, source, timestamp, metadata, fault) ==
    IF ReachedOrganize(o)
    THEN organize_data(lake, data, data_type, source, timestamp, metadata, fault)
    ELSE lake

LatestAfter(o, data, data_type, fault) ==
    IF ReachedLatest(o)
    THEN [latest EXCEPT ![data_type] = WriteLatest(@, data, fault)]
    ELSE latest

\* Time passes.
Tick ==
    /\ now < MaxClock
    /\ now' = now + 1
    /\ UNCHANGED <<lake, latest, apiVars, dedupVars, pathVars, csvVars, callVars,
                   cleanupVars, schedVars, orchVars,
                   readVars, ptrVars, phaseVars, intervalVars>>

(***************************************************************************)
(* ingest_events_csv and ingest_item_properties_csv                        *)
(***************************************************************************)
\* A source file as an attempt finds it: missing, without the required
\* columns (or empty), or readable with its rows.
MissingFile == [exists |-> FALSE, columns_ok |-> FALSE, rows |-> <<>>]
InvalidFile == [exists |-> TRUE, columns_ok |-> FALSE, rows |-> <<>>]
ReadableFile(rows) == [exists |-> TRUE, columns_ok |-> TRUE, rows |-> rows]

EventRow(item, ev) ==
    [timestamp |-> 1433221332, itemid |-> item, visitorid |-> 7, event |-> ev,
     transactionid |-> "NaN"]
ItemRow(item, prop, val) == [itemid |-> item, property |-> prop, value |-> val]

EventFiles ==
    {MissingFile, InvalidFile,
     ReadableFile(<<EventRow(1, "view"), EventRow(2, "view"), EventRow(1, "view")>>),
     ReadableFile(<<EventRow(2, "addtocart")>>)}

\* item_properties_part1.csv and item_properties_part2.csv
ItemFilesPart1 ==
    {MissingFile,
     ReadableFile(<<ItemRow(1, "available", "0"), ItemRow(2, "available", "1")>>)}
ItemFilesPart2 ==
    {InvalidFile, ReadableFile(<<ItemRow(1, "available", "1")>>)}

\* df['ingestion_timestamp'], df['ingestion_source'], df['ingestion_batch_id']
RECURSIVE AddEventsMetadata(_, _)
AddEventsMetadata(df, ts) ==
    IF df = <<>> THEN <<>>
    ELSE <<[timestamp |-> Head(df).timestamp, itemid |-> Head(df).itemid,
            visitorid |-> Head(df).visitorid, event |-> Head(df).event,
            transactionid |-> Head(df).transactionid,
            ingestion_timestamp |-> ts, ingestion_source |-> "csv_events",
            ingestion_batch_id |-> "events_" \o Strftime(ts)]>>
         \o AddEventsMetadata(Tail(df), ts)

RECURSIVE AddItemsMetadata(_, _)
AddItemsMetadata(df, ts) ==
    IF df = <<>> THEN <<>>
    ELSE <<[itemid |-> Head(df).itemid, property |-> Head(df).property,
            value |-> Head(df).value,
            ingestion_timestamp |-> ts, ingestion_source |-> "csv_item_properties",
            ingestion_batch_id |-> "items_" \o Strftime(ts)]>>
         \o AddItemsMetadata(Tail(df), ts)

\* How an attempt of ingest_events_csv ends: the first step that raises.
EventsOutcome(f, fault) ==
    CASE ~f.exists -> "file_not_found"
      [] ~f.columns_ok -> "validation_failed"
      [] fault = "read" -> "parse_error"
      [] f.rows = <<>> -> "no_chunks"
      [] OrganizeRaises(fault) -> "organize_failed"
      [] fault \in {"latest_open", "latest_write"} -> "latest_failed"
      [] fault = "archive_copy" -> "archive_failed"
      [] OTHER -> "success"

\* The rows ingest_item_properties_csv combines: each file that exists, has
\* the columns and is read without error, in the order of file_paths.
RECURSIVE CombinedRows(_, _)
CombinedRows(fs, fault) ==
    IF fs = <<>> THEN <<>>
    ELSE (IF Head(fs).exists /\ Head(fs).columns_ok /\ fault # "read"
          THEN Head(fs).rows ELSE <<>>)
         \o CombinedRows(Tail(fs), fault)

ItemsOutcome(fs, fault) ==
    CASE CombinedRows(fs, fault) = <<>> -> "no_valid_files"
      [] OrganizeRaises(fault) -> "organize_failed"
      [] fault \in {"latest_open", "latest_write"} -> "latest_failed"
      [] fault = "archive_copy" -> "archive_failed"
      [] OTHER -> "success"

NoIngestResult ==
    [status |-> "none", records_count |-> 0, duplicates_removed |-> 0,
     output_file |-> "", errors |-> <<>>]

RetryAgain_OneRetryFewer(count, ceiling) == count + 1 < ceiling

\* The except branch: retry while retry_count < max_retries.
RetryAgain(count, ceiling) == count < ceiling

\* The end of an attempt that ended with outcome o: return the success
\* result, or sleep and call itself with retry_count + 1, or return the
\* failed result.
CsvFinishAttempt(o, data_type, data, removed, out) ==
    IF o = "success"
    THEN /\ result' = [status |-> "success", records_count |-> Len(data),
                       duplicates_removed |-> removed, output_file |-> out,
                       errors |-> <<>>]
         /\ pc' = "returned"
         /\ succeeded' = [succeeded EXCEPT ![data_type] = Append(@, data)]
         /\ UNCHANGED <<retry_count, csv_sleeps>>
    ELSE IF RetryAgain(retry_count, max_retries)
    THEN /\ csv_sleeps' = Append(csv_sleeps, CsvRetryDelay)
         /\ retry_count' = retry_count + 1
         /\ UNCHANGED <<pc, result, succeeded>>
    ELSE /\ result' = [status |-> "failed", records_count |-> 0,
                       duplicates_removed |-> 0, output_file |-> "",
                       errors |-> <<o>>]
         /\ pc' = "returned"
         /\ UNCHANGED <<retry_count, csv_sleeps, succeeded>>

\* run_full_csv_ingestion calls ingest_events_csv() or
\* ingest_item_properties_csv() with retry_count = 0.
CsvStart(data_type, n) ==
    /\ op = "none"
    /\ calls_left > 0
    /\ calls_left' = calls_left - 1
    /\ op' = data_type
    /\ pc' = "attempt"
    /\ max_retries' = n
    /\ retry_count' = 0
    /\ csv_outcomes' = <<>>
    /\ csv_sleeps' = <<>>
    /\ result' = NoIngestResult
    /\ UNCHANGED <<succeeded, apiVars, dedupVars, pathVars, lakeVars,
                   cleanupVars, schedVars, orchVars,
                   readVars, ptrVars, phaseVars, intervalVars>>

\* One attempt of ingest_events_csv, the source file being f and the I/O
\* fault of the attempt being fault.
IngestEventsAttempt(f, fault) ==
    /\ op = "events"
    /\ pc = "attempt"
    /\ LET o == EventsOutcome(f, fault)
           ts == DatetimeNow(now)
           df == AddEventsMetadata(f.rows, ts)
           df_dedupe == EventsDedupe(df)
           metadata == [original_file |-> "data/raw/events.csv",
                        ingestion_timestamp |-> Strftime(ts),
                        duplicates_removed |-> Len(df) - Len(df_dedupe)]
       IN /\ lake' = LakeAfter(o, df_dedupe, "events", "csv_ingestion", ts, metadata, fault)
          /\ latest' = LatestAfter(o, df_dedupe, "events", fault)
          /\ csv_outcomes' = Append(csv_outcomes, o)
          /\ CsvFinishAttempt(o, "events", df_dedupe, Len(df) - Len(df_dedupe),
                              output_file("events", "csv_ingestion", ts))
    /\ UNCHANGED <<op, calls_left, now, max_retries, apiVars, dedupVars, pathVars,
                   cleanupVars, schedVars, orchVars,
                   readVars, ptrVars, phaseVars, intervalVars>>

\* One attempt of ingest_item_properties_csv, the source files being fs.
IngestItemPropertiesAttempt(fs, fault) ==
    /\ op = "item_properties"
    /\ pc = "attempt"
    /\ LET o == ItemsOutcome(fs, fault)
           ts == DatetimeNow(now)
           combined_df == AddItemsMetadata(CombinedRows(fs, fault), ts)
           deduped == ItemsDedupe(combined_df)
           metadata == [source_files |-> <<"item_properties_part1.csv",
                                           "item_properties_part2.csv">>,
                        ingestion_timestamp |-> Strftime(ts),
                        duplicates_removed |-> Len(combined_df) - Len(deduped),
                        total_records |-> Len(deduped)]
       IN /\ lake' = LakeAfter(o, deduped, "item_properties", "csv_ingestion", ts,
                               metadata, fault)
          /\ latest' = LatestAfter(o, deduped, "item_properties", fault)
          /\ csv_outcomes' = Append(csv_outcomes, o)
          /\ CsvFinishAttempt(o, "item_properties", deduped,
                              Len(combined_df) - Len(deduped),
                              output_file("item_properties", "csv_ingestion", ts))
    /\ UNCHANGED <<op, calls_left, now, max_retries, apiVars, dedupVars, pathVars,
                   cleanupVars, schedVars, orchVars,
                   readVars, ptrVars, phaseVars, intervalVars>>

\* The caller takes the result: the locals of the call are gone.
CsvReturn ==
    /\ op \in {"events", "item_properties"}
    /\ pc = "returned"
    /\ op' = "none"
    /\ pc' = "idle"
    /\ max_retries' = 0
    /\ retry_count' = 0
    /\ csv_outcomes' = <<>>
    /\ csv_sleeps' = <<>>
    /\ result' = NoIngestResult
    /\ UNCHANGED <<calls_left, succeeded, apiVars, dedupVars, pathVars, lakeVars,
                   cleanupVars, schedVars, orchVars,
                   readVars, ptrVars, phaseVars, intervalVars>>

(***************************************************************************)
(* Reading a source file: validate_csv_structure and the chunked read      *)
(***************************************************************************)
\* The number of columns of the header of events.csv, and the number of
\* rows validate_csv_structure reads (nrows=5).
HeaderFields == 5
SampleRows == 5

\* A data line: how many fields it has, and the item it is about.
Line(fields, item) == [fields |-> fields, itemid |-> item]

LineSamples == {Line(HeaderFields, 1), Line(HeaderFields, 2), Line(HeaderFields + 1, 1)}

\* The line the python engine of pd.read_csv reports as bad: more fields
\* than the header has columns.
BadLine(line) == line.fields > HeaderFields

\* The files: up to MaxLines data lines under a header with the required
\* columns, the first of them with as many fields as the header.
SourceFiles ==
    {q \in BoundedSeq(LineSamples, MaxLines) : q # <<>> => ~BadLine(q[1])}

ChunkSizes == {1, 2}

Min(a, b) == IF a < b THEN a ELSE b

\* validate_csv_structure on a file with the required columns: the sample
\* is read with on_bad_lines at its default, so a bad line in it raises
\* ParserError (False, "CSV parsing error"); an empty sample is (False,
\* "CSV file is empty").
ValidCsvStructure(lines) ==
    /\ lines # <<>>
    /\ \A i \in 1..Min(SampleRows, Len(lines)) : ~BadLine(lines[i])

\* The row read from a line.
RowOfLine(line, data_type) ==
    IF data_type = "events" THEN EventRow(line.itemid, "view")
    ELSE ItemRow(line.itemid, "available", "1")

\* on_bad_lines="skip": the rows of the lines that are not bad.
RECURSIVE GoodRows(_, _)
GoodRows(lines, data_type) ==
    IF lines = <<>> THEN <<>>
    ELSE (IF BadLine(Head(lines)) THEN <<>> ELSE <<RowOfLine(Head(lines), data_type)>>)
         \o GoodRows(Tail(lines), data_type)

\* pd.read_csv(..., chunksize=size): one chunk per window of size lines.
ReadCsvChunks(lines, size, data_type) ==
    [k \in 1..((Len(lines) + size - 1) \div size) |->
        GoodRows(SubSeq(lines, (k - 1) * size + 1, Min(k * size, Len(lines))), data_type)]

\* "if chunk.empty: continue", else chunks.append(chunk)
RECURSIVE KeptChunks(_)
KeptChunks(chunks) ==
    IF chunks = <<>> THEN <<>>
    ELSE (IF Head(chunks) = <<>> THEN <<>> ELSE <<Head(chunks)>>) \o KeptChunks(Tail(chunks))

NoChunksFound_AnyEmptyChunk(chunks) == \E k \in DOMAIN chunks : chunks[k] = <<>>

\* "if not chunks" ("if file_chunks" for item properties)
NoChunksFound(chunks) == KeptChunks(chunks) = <<>>

\* pd.concat(chunks, ignore_index=True)
RECURSIVE Concat(_)
Concat(chunks) == IF chunks = <<>> THEN <<>> ELSE Head(chunks) \o Concat(Tail(chunks))

\* The file of these lines as an attempt finds it.
ReadCsvFile(lines, size, data_type) ==
    LET chunks == ReadCsvChunks(lines, size, data_type)
    IN [exists |-> TRUE,
        columns_ok |-> ValidCsvStructure(lines),
        rows |-> IF NoChunksFound(chunks) THEN <<>> ELSE Concat(KeptChunks(chunks))]

(***************************************************************************)
(* The write of a latest file, step by step, and a reader of the file      *)
(***************************************************************************)
NoPointerWrite == [pc |-> "idle", data_type |-> "none", data |-> <<>>]

\* The batches written, one row each.
PointerBatches == {<<EventRow(1, "view")>>, <<EventRow(2, "view")>>}

\* df.to_parquet(latest_path, index=False) opens latest_path itself for
\* writing: the file is cut to nothing, whatever it held.
ToParquetOpen(d, data) ==
    /\ pointer_write.pc = "idle"
    /\ calls_left > 0
    /\ calls_left' = calls_left - 1
    /\ pointer_write' = [pc |-> "writing", data_type |-> d, data |-> data]
    /\ latest' = [latest EXCEPT ![d] = Truncated]
    /\ UNCHANGED <<now, lake, reader_saw, op, pc, result, succeeded, apiVars, dedupVars,
                   pathVars, csvVars, cleanupVars, schedVars, orchVars, readVars,
                   phaseVars, intervalVars>>

\* The row groups and the footer are written and the file is closed.
ToParquetClose ==
    /\ pointer_write.pc = "writing"
    /\ latest' = [latest EXCEPT ![pointer_write.data_type] = Written(pointer_write.data)]
    /\ pointer_write' = NoPointerWrite
    /\ UNCHANGED <<now, lake, reader_saw, apiVars, dedupVars, pathVars, csvVars,
                   callVars, cleanupVars, schedVars, orchVars, readVars, phaseVars, intervalVars>>

\* Another process reads the latest file of data type d.
ReadLatest(d) ==
    /\ Len(reader_saw) < MaxCalls
    /\ reader_saw' = Append(reader_saw, latest[d])
    /\ UNCHANGED <<pointer_write, apiVars, dedupVars, pathVars, csvVars, lakeVars,
                   callVars, cleanupVars, schedVars, orchVars, readVars, phaseVars, intervalVars>>

(***************************************************************************)
(* setup_http_session: the adapter mounted on the session.                 *)
(***************************************************************************)
status_forcelist == {"429", "500", "502", "503", "504"}
allowed_methods == {"HEAD", "GET", "OPTIONS", "POST"}

\* endpoint_config['method'] of the endpoints the model calls.
Methods == {"GET", "PUT"}

\* The HTTP statuses the modelled endpoints answer with.
Statuses == {"200", "429", "404", "501", "503"}

\* What one HTTP request on the wire can give: a response with a status, a
\* connection error (timeout while connecting, connection refused) or a read
\* error (read timeout, connection reset).
WireOutcomes == Statuses \cup {"connect_error", "read_error"}

\* urllib3 Retry.is_retry / increment as configured by setup_http_session:
\* does the adapter handle wire outcome w itself (retry it, or raise once
\* the total is used up) instead of handing the response to the caller?
AdapterHandles(m, w) ==
    \/ w = "connect_error"
    \/ w = "read_error"
    \/ w \in status_forcelist /\ m \in allowed_methods

\* A read error of a method outside allowed_methods is raised at once; any
\* other handled outcome is retried on the wire while Retry.total lasts.
AdapterRetries(m, w, total) ==
    /\ AdapterHandles(m, w)
    /\ ~(w = "read_error" /\ m \notin allowed_methods)
    /\ total > 0

\* What session.request hands to make_api_request once the adapter stops:
\* the response's status, or "exception" (a requests RequestException:
\* ConnectionError, ReadTimeout, RetryError).
SessionResult(m, w) ==
    IF AdapterHandles(m, w) THEN "exception" ELSE w

(***************************************************************************)
(* make_api_request                                                        *)
(***************************************************************************)
LoopBranch_ReturnsOneAttemptEarly(r, a, n) ==
    CASE r = "200" -> "return_success"
      [] r = "429" -> "sleep_continue"
      [] r = "exception" -> IF a < n - 1 THEN "sleep_retry" ELSE "return_exception"
      [] OTHER -> "return_http_error"

LoopBranch_RetriesEveryErrorStatus(r, a, n) ==
    CASE r = "200" -> "return_success"
      [] r = "exception" -> IF a < n THEN "sleep_retry" ELSE "return_exception"
      [] OTHER -> "sleep_continue"

\* The branch the loop body takes on what session.request gave (r), in
\* iteration a of range(1, n + 1).
LoopBranch(r, a, n) ==
    CASE r = "200" -> "return_success"
      [] r = "429" -> "sleep_continue"
      [] r = "exception" -> IF a < n THEN "sleep_retry" ELSE "return_exception"
      [] OTHER -> "return_http_error"

Continues_AlsoAfterSuccess(b) ==
    b \in {"sleep_continue", "sleep_retry", "return_success"}

\* The two branches that go round the loop again.
Continues(b) == b \in {"sleep_continue", "sleep_retry"}

delay_SameEveryAttempt(a) == ApiRetryDelay

\* The seconds the loop sleeps after iteration a went wrong: the 429 branch
\* and the exception branch compute the same product.
delay(a) == ApiRetryDelay * a

\* error_msg of the else branch: the status of the response.
HttpError(r) == "HTTP " \o r

\* error_msg of the except branch: str(e) names what the last request on
\* the wire (w) ran into.
RequestExceptionError(w) == "Request exception: " \o w

\* The message of the return statement after the loop.
AllAttemptsFailed(n) == "All " \o ToString(n) \o " attempts failed"

ReturnedTuple_AllAttemptsFailedOnException(b, last, r, w, n) ==
    CASE b = "return_success" -> [success |-> TRUE, error |-> ""]
      [] b = "return_http_error" -> [success |-> FALSE, error |-> HttpError(r)]
      [] b = "return_exception" -> [success |-> FALSE, error |-> AllAttemptsFailed(n)]
      [] Continues(b) /\ last -> [success |-> FALSE, error |-> AllAttemptsFailed(n)]
      [] OTHER -> NoResult

\* The tuple make_api_request returns when branch b is taken in the
\* iteration that is (last) or is not the last one of range(1, n + 1), on
\* what session.request gave (r) after wire outcome w.
ReturnedTuple(b, last, r, w, n) ==
    CASE b = "return_success" -> [success |-> TRUE, error |-> ""]
      [] b = "return_http_error" -> [success |-> FALSE, error |-> HttpError(r)]
      [] b = "return_exception" -> [success |-> FALSE, error |-> RequestExceptionError(w)]
      [] Continues(b) /\ last -> [success |-> FALSE, error |-> AllAttemptsFailed(n)]
      [] OTHER -> NoResult

\* ingest_endpoint calls make_api_request for the endpoint "products".
ApiStart(m, n) ==
    /\ op = "none"
    /\ calls_left > 0
    /\ calls_left' = calls_left - 1
    /\ op' = "api"
    /\ api_retry_attempts' = n
    /\ pc' = IF n < 1 THEN "returned" ELSE "request"
    /\ method' = m
    /\ attempt' = 1
    /\ retries_total' = n
    /\ api_outcomes' = <<>>
    /\ wire_requests' = 0
    /\ last_wire' = "none"
    /\ api_sleeps' = <<>>
    /\ api_result' = IF n < 1
                     THEN [success |-> FALSE, error |-> AllAttemptsFailed(n)]
                     ELSE NoResult
    /\ UNCHANGED <<result, succeeded, dedupVars, pathVars, csvVars, lakeVars,
                   cleanupVars, schedVars, orchVars,
                   readVars, ptrVars, phaseVars, intervalVars>>

\* One HTTP request on the wire and everything the adapter and the loop do
\* with its outcome, up to the next request on the wire or the return.
ApiWireRequest(w) ==
    /\ op = "api"
    /\ pc = "request"
    /\ wire_requests' = wire_requests + 1
    /\ last_wire' = w
    /\ IF AdapterRetries(method, w, retries_total)
       THEN /\ retries_total' = retries_total - 1
            /\ UNCHANGED <<pc, attempt, api_outcomes, api_sleeps, api_result>>
       ELSE LET r == SessionResult(method, w)
                b == LoopBranch(r, attempt, api_retry_attempts)
                last == attempt >= api_retry_attempts
            IN /\ api_outcomes' = Append(api_outcomes, r)
               /\ retries_total' = api_retry_attempts
               /\ api_sleeps' = IF Continues(b)
                                THEN Append(api_sleeps, delay(attempt))
                                ELSE api_sleeps
               /\ attempt' = IF Continues(b) /\ ~last THEN attempt + 1 ELSE attempt
               /\ api_result' = ReturnedTuple(b, last, r, w, api_retry_attempts)
               /\ pc' = IF Continues(b) /\ ~last THEN "request" ELSE "returned"
    /\ UNCHANGED <<api_retry_attempts, method, op, result, calls_left, succeeded, dedupVars,
                   pathVars, csvVars, lakeVars, cleanupVars, schedVars, orchVars,
                   readVars, ptrVars, phaseVars, intervalVars>>

\* The products arrays the endpoint answers with.
ApiResponses ==
    {<<[id |-> 1, title |-> "phone"]>>,
     <<[id |-> 1, title |-> "phone"], [id |-> 2, title |-> "laptop"]>>}

\* process_api_data for "products": the rows with ingested_at and data_source.
RECURSIVE ProcessProducts(_, _)
ProcessProducts(raw, ts) ==
    IF raw = <<>> THEN <<>>
    ELSE <<[id |-> Head(raw).id, title |-> Head(raw).title, ingested_at |-> ts,
            data_source |-> "api_products"]>>
         \o ProcessProducts(Tail(raw), ts)

\* How save_api_data ends: the first step that raises.
SaveOutcome(fault) ==
    CASE OrganizeRaises(fault) -> "organize_failed"
      [] fault \in {"latest_open", "latest_write"} -> "latest_failed"
      [] OTHER -> "success"

\* ingest_endpoint after a successful request: process_api_data, then
\* save_api_data(df, "products") with the I/O fault of the save being fault.
SaveApiData(raw, fault) ==
    /\ op = "api"
    /\ pc = "returned"
    /\ api_result.success
    /\ fault \notin {"read", "archive_copy"}
    /\ LET o == SaveOutcome(fault)
           ts == DatetimeNow(now)
           df == ProcessProducts(raw, ts)
           metadata == [endpoint |-> "products", ingestion_timestamp |-> Strftime(ts),
                        api_source |-> "dummyjson", total_records |-> Len(df)]
       IN /\ lake' = LakeAfter(o, df, "products", "api_ingestion", ts, metadata, fault)
          /\ latest' = LatestAfter(o, df, "products", fault)
          /\ result' = IF o = "success"
                       THEN [status |-> "success", records_count |-> Len(df),
                             duplicates_removed |-> 0,
                             output_file |-> output_file("products", "api_ingestion", ts),
                             errors |-> <<>>]
                       ELSE [status |-> "failed", records_count |-> 0,
                             duplicates_removed |-> 0, output_file |-> "",
                             errors |-> <<o>>]
          /\ succeeded' = IF o = "success"
                          THEN [succeeded EXCEPT !["products"] = Append(@, df)]
                          ELSE succeeded
    /\ pc' = "saved"
    /\ UNCHANGED <<op, calls_left, now, apiVars, dedupVars, pathVars, csvVars,
                   cleanupVars, schedVars, orchVars,
                   readVars, ptrVars, phaseVars, intervalVars>>

\* ingest_endpoint returns (after a failed request, or after the save): the
\* locals of the call are gone and the ingester is free for the next call.
ApiReturn ==
    /\ op = "api"
    /\ \/ pc = "returned" /\ ~api_result.success
       \/ pc = "saved"
    /\ op' = "none"
    /\ pc' = "idle"
    /\ method' = "GET"
    /\ attempt' = 0
    /\ retries_total' = 0
    /\ api_outcomes' = <<>>
    /\ wire_requests' = 0
    /\ last_wire' = "none"
    /\ api_sleeps' = <<>>
    /\ api_result' = NoResult
    /\ result' = NoIngestResult
    /\ api_retry_attempts' = 0
    /\ UNCHANGED <<calls_left, succeeded, dedupVars, pathVars, csvVars, lakeVars,
                   cleanupVars, schedVars, orchVars,
                   readVars, ptrVars, phaseVars, intervalVars>>

(***************************************************************************)
(* cleanup_old_data                                                        *)
(***************************************************************************)
\* config['storage']['retention_days'], in the order the dict is iterated:
\* the tiers "raw" and "features" of the default configuration.
RawRetentionDays == 90
FeaturesRetentionDays == 180
retention_tiers == <<"raw", "features">>
retention_days == [raw |-> RawRetentionDays, features |-> FeaturesRetentionDays]

\* A partition directory under data/<tier>/: the keys of its three path
\* segments (key=value), the datetime the values spell, and the bytes of the
\* files in it.
\* The segments create_partitioned_path gives a partition:
\* source=<source>/type=<data_type>/timestamp=<YYYYMMDD_HHMMSS>.
OrganizerSegments == <<"source", "type", "timestamp">>

\* The segments of the date-partitioned layout: year=<Y>/month=<M>/day=<D>.
DateSegments == <<"year", "month", "day">>

Datetime2024(month, day, hour) ==
    [year |-> 2024, month |-> month, day |-> day, hour |-> hour, minute |-> 0,
     second |-> 0, microsecond |-> 0]

Partition(tier, segments, date, size) ==
    [tier |-> tier, segments |-> segments, date |-> date, size |-> size]

\* datetime.now() of the cleanup call: 2024-07-19, at midnight or at 10:00.
CleanupNows == {Datetime2024(7, 19, 0), Datetime2024(7, 19, 10)}

\* The partition directories a tree is made of: date partitions of the tier
\* raw dated 10, 40, 90 and 100 days before 2024-07-19, partitions written by
\* organize_data 10 and 100 days before, date partitions of the tier
\* features dated 100 and 190 days before, and one of the tier staging
\* (which has no retention entry) dated 190 days before.
PartitionUniverse ==
    {Partition("raw", DateSegments, Datetime2024(7, 9, 0), 10),
     Partition("raw", DateSegments, Datetime2024(6, 9, 0), 20),
     Partition("raw", DateSegments, Datetime2024(4, 20, 0), 30),
     Partition("raw", DateSegments, Datetime2024(4, 10, 0), 40),
     Partition("raw", OrganizerSegments, Datetime2024(7, 9, 12), 50),
     Partition("raw", OrganizerSegments, Datetime2024(4, 10, 12), 60),
     Partition("features", DateSegments, Datetime2024(4, 10, 0), 70),
     Partition("features", DateSegments, Datetime2024(1, 11, 0), 80),
     Partition("staging", DateSegments, Datetime2024(1, 11, 0), 90)}

SecondsPerDay == 86400

\* dir_date < cutoff_date, with cutoff_date = datetime.now() - timedelta(days)
OlderThanCutoff(dir_date, nowts, days) ==
    SecondsInto2024(dir_date) < SecondsInto2024(nowts) - days * SecondsPerDay

\* The directories the nested globs year=* / month=* / day=* visit under
\* data/<data_dir>.
GlobDayDirs(tr, data_dir) ==
    {p \in tr : p.tier = data_dir /\ p.segments = DateSegments}

\* The action appended for a day directory.
CleanupAction(p) == [path |-> p, date |-> p.date, type |-> p.tier, size |-> p.size]

\* if dir_date < cutoff_date
CutoffTest(p, nowts) == OlderThanCutoff(p.date, nowts, retention_days[p.tier])

\* The day directories of one tier that pass the cutoff test.
TierCandidates(tr, data_dir, nowts) ==
    {p \in GlobDayDirs(tr, data_dir) : CutoffTest(p, nowts)}

\* The sequences that list the elements of S once each (the order in which
\* a glob yields them is the file system's).
Orderings(S) ==
    {q \in [1..Cardinality(S) -> S] : \A i, j \in DOMAIN q : i # j => q[i] # q[j]}

\* The lists cleanup_actions can be after the loop over retention_config:
\* tier after tier in the order of the config, each tier in glob order.
RECURSIVE CollectedLists(_, _, _)
CollectedLists(tr, tiers, nowts) ==
    IF tiers = <<>> THEN {<<>>}
    ELSE {[i \in DOMAIN q |-> CleanupAction(q[i])] \o rest :
            q \in Orderings(TierCandidates(tr, Head(tiers), nowts)),
            rest \in CollectedLists(tr, Tail(tiers), nowts)}

\* list.sort(key=lambda x: x['date']): a stable insertion by date.
RECURSIVE InsertByDate(_, _)
InsertByDate(sorted, a) ==
    IF sorted = <<>> THEN <<a>>
    ELSE IF SecondsInto2024(a.date) < SecondsInto2024(Head(sorted).date)
         THEN <<a>> \o sorted
         ELSE <<Head(sorted)>> \o InsertByDate(Tail(sorted), a)

RECURSIVE SortByDate(_)
SortByDate(actions) ==
    IF actions = <<>> THEN <<>>
    ELSE InsertByDate(SortByDate(SubSeq(actions, 1, Len(actions) - 1)),
                      actions[Len(actions)])

RECURSIVE SumSizes(_)
SumSizes(actions) ==
    IF actions = <<>> THEN 0 ELSE Head(actions).size + SumSizes(Tail(actions))

\* What shutil.rmtree leaves of a directory: nothing, or, when it raises, the
\* directory whole or with some of its files gone.
RmtreeOutcomes == {"deleted", "failed_untouched", "failed_partly"}

TreeAfterRmtree(tr, p, outcome) ==
    CASE outcome = "deleted" -> {q \in tr : q.segments # p.segments \/ q.tier # p.tier
                                              \/ q.date # p.date}
      [] outcome = "failed_partly" ->
            {q \in tr : q # p} \cup {[p EXCEPT !.size = 1]}
      [] OTHER -> tr

DryRunDeletes_Anyway(dry) == TRUE

\* if not dry_run: the deletion loop is entered.
DryRunDeletes(dry) == ~dry

LoopEndsAfter_FirstFailure(outcome, done, total) ==
    outcome # "deleted" \/ done >= total

\* The deletion loop ends when the list is used up: a failed rmtree is
\* caught and logged inside the loop.
LoopEndsAfter(outcome, done, total) == done >= total

\* cleanup_old_data(dry_run) up to the log of the total size: the scan of
\* the tiers of retention_config, the sort, the early return when nothing
\* was found, the sum.
CleanupCollect ==
    /\ cleanup_pc = "called"
    /\ \E collected \in CollectedLists(tree, retention_tiers, cleanup_now) :
          LET sorted == SortByDate(collected)
          IN /\ cleanup_actions' = sorted
             /\ total_size' = SumSizes(sorted)
             /\ cleanup_pc' = IF sorted = <<>> THEN "returned"
                              ELSE IF DryRunDeletes(dry_run) THEN "deleting"
                              ELSE "reporting"
    /\ UNCHANGED <<tree, tree_before, dry_run, cleanup_now, rmtree_calls,
                   apiVars, dedupVars, pathVars, csvVars, lakeVars, callVars,
                   schedVars, orchVars,
                   readVars, ptrVars, phaseVars, intervalVars>>

\* One iteration of the deletion loop: shutil.rmtree(action['path']).
CleanupRmtree(outcome) ==
    /\ cleanup_pc = "deleting"
    /\ LET action == cleanup_actions[Len(rmtree_calls) + 1]
       IN /\ tree' = TreeAfterRmtree(tree, action.path, outcome)
          /\ rmtree_calls' = Append(rmtree_calls, [path |-> action.path,
                                                   outcome |-> outcome])
          /\ cleanup_pc' = IF LoopEndsAfter(outcome, Len(rmtree_calls) + 1,
                                            Len(cleanup_actions))
                           THEN "returned" ELSE "deleting"
    /\ UNCHANGED <<tree_before, dry_run, cleanup_now, cleanup_actions, total_size,
                   apiVars, dedupVars, pathVars, csvVars, lakeVars, callVars,
                   schedVars, orchVars,
                   readVars, ptrVars, phaseVars, intervalVars>>

\* The else branch: the "DRY RUN - Would delete:" log lines.
CleanupDryRunReport ==
    /\ cleanup_pc = "reporting"
    /\ cleanup_pc' = "returned"
    /\ UNCHANGED <<tree, tree_before, dry_run, cleanup_now, cleanup_actions, total_size,
                   rmtree_calls, apiVars, dedupVars, pathVars, csvVars, lakeVars,
                   callVars,
                   schedVars, orchVars,
                   readVars, ptrVars, phaseVars, intervalVars>>

(***************************************************************************)
(* IngestionScheduler                                                      *)
(***************************************************************************)
\* The job names setup_schedules registers.
Jobs == {"csv_ingestion", "api_ingestion", "health_check", "cleanup"}

\* schedule_job with the default scheduling configuration: a daily trigger
\* for a job that has a start_time, and an interval trigger for every job.
ScheduleEntries ==
    {[job |-> "csv_ingestion", trigger |-> "daily"],
     [job |-> "csv_ingestion", trigger |-> "interval"],
     [job |-> "api_ingestion", trigger |-> "daily"],
     [job |-> "api_ingestion", trigger |-> "interval"],
     [job |-> "health_check", trigger |-> "interval"],
     [job |-> "cleanup", trigger |-> "interval"]}

Entry(job, trigger) == [job |-> job, trigger |-> trigger]

\* Lists of triggers that come due together, in the order of their next_run
\* in which run_pending() runs them.
DueBatches ==
    {<<>>,
     <<Entry("health_check", "interval")>>,
     <<Entry("csv_ingestion", "interval"), Entry("api_ingestion", "interval")>>,
     <<Entry("api_ingestion", "daily"), Entry("api_ingestion", "interval"),
       Entry("cleanup", "interval")>>,
     <<Entry("csv_ingestion", "daily"), Entry("health_check", "interval")>>}

\* What job_func() gives _run_job_safe, by kind: a dict whose values are
\* result dicts (all with status success, or not), the flat dict
\* {'status': 'failed', 'error': ...} run_ingestion returns when no endpoint
\* is configured, True, False, or an exception.
\* csv_ingestion_job calls self.csv_ingester.run_ingestion(), a method
\* CSVDataIngester does not have: the call raises AttributeError before any
\* file is read, when every file source is there to be ingested
\* ("no_method_sources_ok") and when not ("no_method_sources_failing").
JobResultKinds(job) ==
    CASE job = "csv_ingestion" -> {"no_method_sources_ok", "no_method_sources_failing"}
      [] job = "api_ingestion" ->
            {"dict_all_success", "dict_some_failed", "dict_no_endpoints", "raised"}
      [] OTHER -> {"true", "false"}

\* The status _run_job_safe records for a result of kind kind: the dict test
\* and the count of values whose r.get('status') is not 'success' (r.get
\* raises AttributeError on the string values of the flat dict), else
\* "result is not False and result is not None"; 'error' when job_func or
\* the classification raises.
TerminalStatus(kind) ==
    CASE kind \in {"dict_all_success", "true"} -> "success"
      [] kind \in {"dict_some_failed", "false"} -> "failed"
      [] OTHER -> "error"

\* jobs_status.get(job_name, {}) of a job that never ran.
NoJobStatus ==
    [status |-> "none", success_count |-> 0, failure_count |-> 0, last_error |-> "None"]

RunningStatus_ResetsCounts(old) ==
    [status |-> "running", success_count |-> 0, failure_count |-> 0, last_error |-> "None"]

\* The record _run_job_safe stores before it calls job_func.
RunningStatus(old) ==
    [status |-> "running", success_count |-> old.success_count,
     failure_count |-> old.failure_count, last_error |-> "None"]

CompletedStatus_ReturnsToIdle(old, st) == [old EXCEPT !.status = "idle"]

\* The update of the record when the run ends with status st.
CompletedStatus(old, st) ==
    CASE st = "success" -> [old EXCEPT !.status = st, !.success_count = @ + 1]
      [] st = "failed" ->
            [old EXCEPT !.status = st, !.failure_count = @ + 1,
                        !.last_error = "Job function returned failure result"]
      [] st = "error" ->
            [old EXCEPT !.status = st, !.failure_count = @ + 1,
                        !.last_error = "str(e)"]
      [] OTHER -> old

\* The status file against self.jobs_status: absent, current (the table as
\* it is in memory), stale (the table of an earlier save), or truncated
\* (opened for writing by a save whose dump failed).
NoStatusFile == "absent"

\* The file once self.jobs_status has changed.
AfterTableChange(file) == IF file = "current" THEN "stale" ELSE file

\* _save_job_status: open(status_file, 'w') and json.dump; a failure of
\* either is logged and swallowed.
SaveOutcomes == {"ok", "open_failed", "dump_failed"}

SaveJobStatus(file, save) ==
    CASE save = "ok" -> "current"
      [] save = "dump_failed" -> "truncated"
      [] OTHER -> file

MayStartJob_WhileJobInFlight(p) == p \in {"run_pending", "in_job"}

\* schedule.run_pending() runs the due jobs one after the other on the
\* caller's thread: a job is started when no job is in flight.
MayStartJob(p) == p = "run_pending"

LoopContinues_IgnoresFlag(flag) == TRUE

\* while self.running
LoopContinues(flag) == flag

\* start(): the flag, setup_schedules(), then the poll loop.
SchedStart ==
    /\ sched_pc = "constructed"
    /\ sched_running' = TRUE
    /\ schedule_jobs' = ScheduleEntries
    /\ sched_pc' = "loop_test"
    /\ UNCHANGED <<jobs_status, status_file, batch_left, current_job, ticks, stop_seen,
                   inflight_at_stop, last_result, apiVars, dedupVars, pathVars, csvVars,
                   lakeVars, callVars, cleanupVars, orchVars,
                   readVars, ptrVars, phaseVars, intervalVars>>

\* The loop test, and for a loop that goes on the call of
\* schedule.run_pending(), which lists the triggers that are due (due), or
\* for a loop that ends the finally clause (stop() returns at once when the
\* flag is down).
LoopTest(due) ==
    /\ sched_pc = "loop_test"
    /\ IF LoopContinues(sched_running)
       THEN /\ ticks < MaxTicks
            /\ \A i \in DOMAIN due : due[i] \in schedule_jobs
            /\ ticks' = ticks + 1
            /\ batch_left' = due
            /\ sched_pc' = "run_pending"
            /\ UNCHANGED <<sched_running, schedule_jobs, status_file>>
       ELSE /\ due = <<>>
            /\ sched_pc' = "exited"
            /\ UNCHANGED <<sched_running, schedule_jobs, status_file, ticks, batch_left>>
    /\ UNCHANGED <<jobs_status, current_job, stop_seen, inflight_at_stop, last_result,
                   apiVars, dedupVars, pathVars, csvVars, lakeVars, callVars,
                   cleanupVars, orchVars,
                   readVars, ptrVars, phaseVars, intervalVars>>

\* _run_job_safe up to the call of job_func, for the next due trigger.
JobBegin ==
    /\ MayStartJob(sched_pc)
    /\ batch_left # <<>>
    /\ batch_left' = Tail(batch_left)
    /\ current_job' = Head(batch_left).job
    /\ jobs_status' = [jobs_status EXCEPT ![Head(batch_left).job] = RunningStatus(@)]
    /\ status_file' = AfterTableChange(status_file)
    /\ sched_pc' = "in_job"
    /\ UNCHANGED <<sched_running, schedule_jobs, ticks, stop_seen,
                   inflight_at_stop, last_result, apiVars, dedupVars, pathVars, csvVars,
                   lakeVars, callVars, cleanupVars, orchVars,
                   readVars, ptrVars, phaseVars, intervalVars>>

\* job_func returns or raises: the status update and, in the finally
\* clause, _save_job_status().
JobEnd(kind, save) ==
    /\ sched_pc = "in_job"
    /\ kind \in JobResultKinds(current_job)
    /\ jobs_status' = [jobs_status EXCEPT
                          ![current_job] = CompletedStatus(@, TerminalStatus(kind))]
    /\ status_file' = SaveJobStatus(AfterTableChange(status_file), save)
    /\ last_result' = kind
    /\ sched_pc' = "run_pending"
    /\ UNCHANGED <<sched_running, schedule_jobs, batch_left, current_job, ticks,
                   stop_seen, inflight_at_stop, apiVars, dedupVars, pathVars, csvVars,
                   lakeVars, callVars, cleanupVars, orchVars,
                   readVars, ptrVars, phaseVars, intervalVars>>

\* run_pending() has run every due job: time.sleep(30).
RunPendingDone ==
    /\ sched_pc = "run_pending"
    /\ batch_left = <<>>
    /\ sched_pc' = "sleeping"
    /\ UNCHANGED <<sched_running, jobs_status, status_file, schedule_jobs, batch_left,
                   current_job, ticks, stop_seen, inflight_at_stop, last_result, apiVars,
                   dedupVars, pathVars, csvVars, lakeVars, callVars, cleanupVars, orchVars,
                   readVars, ptrVars, phaseVars, intervalVars>>

\* The sleep is over.
SleepDone ==
    /\ sched_pc = "sleeping"
    /\ sched_pc' = "loop_test"
    /\ UNCHANGED <<sched_running, jobs_status, status_file, schedule_jobs, batch_left,
                   current_job, ticks, stop_seen, inflight_at_stop, last_result, apiVars,
                   dedupVars, pathVars, csvVars, lakeVars, callVars, cleanupVars, orchVars,
                   readVars, ptrVars, phaseVars, intervalVars>>

\* SIGINT or SIGTERM while the scheduler runs: _signal_handler calls stop()
\* on the main thread, between two bytecodes of whatever start() is doing.
SignalHandler(save) ==
    /\ sched_pc \in {"loop_test", "run_pending", "in_job", "sleeping"}
    /\ sched_running
    /\ sched_running' = FALSE
    /\ schedule_jobs' = {}
    /\ status_file' = SaveJobStatus(status_file, save)
    /\ stop_seen' = TRUE
    /\ inflight_at_stop' = IF sched_pc = "in_job" THEN current_job ELSE "none"
    /\ UNCHANGED <<jobs_status, sched_pc, batch_left, current_job, ticks, last_result,
                   apiVars, dedupVars, pathVars, csvVars, lakeVars, callVars,
                   cleanupVars, orchVars,
                   readVars, ptrVars, phaseVars, intervalVars>>

(***************************************************************************)
(* IngestionOrchestrator.run_full_ingestion                                *)
(***************************************************************************)
CooldownSeconds == 10

\* The keys of the dict run_full_csv_ingestion returns, and the endpoints
\* of the default configuration.
CsvSources == {"events", "item_properties"}
ApiEndpoints == {"products", "categories"}

\* How long a phase takes, in seconds.
PhaseDurations == {0, 1}

\* What an ingester's run did: returned a dict of one result per source,
\* returned the flat dict {'status': 'failed', 'error': ...} (run_ingestion
\* when no endpoint is configured), or raised; "none" when it was not called.
Returned(statuses) == [kind |-> "returned", statuses |-> statuses]
NotReturned(kind, sources) == [kind |-> kind, statuses |-> [s \in sources |-> "none"]]

CsvOutcomes ==
    {Returned(f) : f \in [CsvSources -> {"success", "failed"}]}
        \union {NotReturned("raised", CsvSources)}

ApiOutcomes ==
    {Returned(f) : f \in [ApiEndpoints -> {"success", "failed"}]}
        \union {NotReturned("raised", ApiEndpoints), NotReturned("no_endpoints", ApiEndpoints)}

\* The success flag run_csv_ingestion and run_api_ingestion compute: every
\* result.get('status') is 'success'; the loop raises on the string values
\* of the flat dict, and an exception gives False.
PhaseSuccess(outcome) ==
    /\ outcome.kind = "returned"
    /\ \A s \in DOMAIN outcome.statuses : outcome.statuses[s] = "success"

\* The results they return beside the flag: the ingester's dict, or
\* {'error': error_msg}.
PhaseResults(outcome) ==
    IF outcome.kind = "returned"
    THEN [kind |-> "results", statuses |-> outcome.statuses]
    ELSE [kind |-> "error", statuses |-> outcome.statuses]

\* An entry of pipeline_results: {} at first, then {'success', 'results'}.
EmptyPhaseEntry(sources) ==
    [present |-> FALSE, success |-> FALSE,
     results |-> [kind |-> "none", statuses |-> [s \in sources |-> "none"]]]

PhaseEntry(outcome) ==
    [present |-> TRUE, success |-> PhaseSuccess(outcome), results |-> PhaseResults(outcome)]

InitialPipelineResults ==
    [csv_ingestion |-> EmptyPhaseEntry(CsvSources),
     api_ingestion |-> EmptyPhaseEntry(ApiEndpoints),
     overall_status |-> "failed", error |-> "none", failed_sources |-> 0,
     errors |-> <<>>]

AfterCsvPhase_StopsOnFailure(csv_success) == IF csv_success THEN "cooldown" ELSE "aggregate"

\* What follows run_csv_ingestion: the delay, whatever the flag is.
AfterCsvPhase(csv_success) == "cooldown"

SleepUntil_NoCooldown(t) == t

\* time.sleep(10)
SleepUntil(t) == t + CooldownSeconds

OverallSuccess_EitherPhase(csv_success, api_success) == csv_success \/ api_success

\* overall_success = csv_success and api_success
OverallSuccess(csv_success, api_success) == csv_success /\ api_success

\* summary['failed_sources'] of _generate_pipeline_summary: one per phase
\* whose flag is False.
FailedSources(csv_success, api_success) ==
    (IF csv_success THEN 0 ELSE 1) + (IF api_success THEN 0 ELSE 1)

\* The endpoints in the order of the results dict.
EndpointOrder == <<"products", "categories">>

\* The messages _generate_pipeline_summary appends for the API phase when
\* its flag is False: the phase's 'error', or one message per endpoint
\* whose status is not success.
RECURSIVE EndpointErrors(_, _)
EndpointErrors(statuses, endpoints) ==
    IF endpoints = <<>> THEN <<>>
    ELSE (IF statuses[Head(endpoints)] # "success"
          THEN <<"API (" \o Head(endpoints) \o ")">> ELSE <<>>)
         \o EndpointErrors(statuses, Tail(endpoints))

ApiErrors(entry) ==
    CASE entry.success -> <<>>
      [] entry.results.kind = "error" -> <<"API">>
      [] OTHER -> EndpointErrors(entry.results.statuses, EndpointOrder)

\* The messages it appends for the file phase when its flag is False: the
\* phase's 'error' when the results have that key, else nothing.
CsvErrors(entry) ==
    CASE entry.success -> <<>>
      [] entry.results.kind = "error" -> <<"CSV">>
      [] OTHER -> <<>>

Step(event, at) == [event |-> event, at |-> at]

\* The call, up to initialize_ingesters(): on a failure the run returns the
\* initial pipeline_results with an error.
OrchCall(init_ok) ==
    /\ orch_pc = "called"
    /\ IF init_ok
       THEN /\ orch_pc' = "csv_phase"
            /\ UNCHANGED pipeline_results
       ELSE /\ orch_pc' = "returned"
            /\ pipeline_results' =
                  [pipeline_results EXCEPT
                      !.error = "Failed to initialize ingestion components"]
    /\ UNCHANGED <<csv_outcome, api_outcome, pipeline_metadata, orch_now, orch_trace,
                   apiVars, dedupVars, pathVars, csvVars, lakeVars, callVars,
                   cleanupVars, schedVars,
                   readVars, ptrVars, phaseVars, intervalVars>>

\* run_csv_ingestion() and the assignment of pipeline_results['csv_ingestion'].
RunCsvPhase(outcome, duration) ==
    /\ orch_pc = "csv_phase"
    /\ csv_outcome' = outcome
    /\ pipeline_results' = [pipeline_results EXCEPT !.csv_ingestion = PhaseEntry(outcome)]
    /\ orch_now' = orch_now + duration
    /\ orch_trace' = orch_trace \o <<Step("csv_start", orch_now),
                                     Step("csv_end", orch_now + duration)>>
    /\ orch_pc' = AfterCsvPhase(PhaseSuccess(outcome))
    /\ UNCHANGED <<api_outcome, pipeline_metadata, apiVars, dedupVars, pathVars,
                   csvVars, lakeVars, callVars, cleanupVars, schedVars,
                   readVars, ptrVars, phaseVars, intervalVars>>

\* The delay between the phases.
Cooldown ==
    /\ orch_pc = "cooldown"
    /\ orch_now' = SleepUntil(orch_now)
    /\ orch_trace' = Append(orch_trace, Step("cooldown_end", SleepUntil(orch_now)))
    /\ orch_pc' = "api_phase"
    /\ UNCHANGED <<csv_outcome, api_outcome, pipeline_results, pipeline_metadata,
                   apiVars, dedupVars, pathVars, csvVars, lakeVars, callVars,
                   cleanupVars, schedVars,
                   readVars, ptrVars, phaseVars, intervalVars>>

\* run_api_ingestion() and the assignment of pipeline_results['api_ingestion'].
RunApiPhase(outcome, duration) ==
    /\ orch_pc = "api_phase"
    /\ api_outcome' = outcome
    /\ pipeline_results' = [pipeline_results EXCEPT !.api_ingestion = PhaseEntry(outcome)]
    /\ orch_now' = orch_now + duration
    /\ orch_trace' = orch_trace \o <<Step("api_start", orch_now),
                                     Step("api_end", orch_now + duration)>>
    /\ orch_pc' = "aggregate"
    /\ UNCHANGED <<csv_outcome, pipeline_metadata, apiVars, dedupVars, pathVars,
                   csvVars, lakeVars, callVars, cleanupVars, schedVars,
                   readVars, ptrVars, phaseVars, intervalVars>>

\* The overall status, the summary and _save_pipeline_metadata, whose
\* failure is logged and swallowed.
Aggregate(saved) ==
    /\ orch_pc = "aggregate"
    /\ LET csv_success == pipeline_results.csv_ingestion.success
           api_success == pipeline_results.api_ingestion.success
       IN pipeline_results' =
             [pipeline_results EXCEPT
                 !.overall_status =
                     IF OverallSuccess(csv_success, api_success) THEN "success" ELSE "failed",
                 !.failed_sources = FailedSources(csv_success, api_success),
                 !.errors = CsvErrors(pipeline_results.csv_ingestion)
                               \o ApiErrors(pipeline_results.api_ingestion)]
    /\ pipeline_metadata' = IF saved THEN "written" ELSE pipeline_metadata
    /\ orch_trace' = Append(orch_trace, Step("aggregate", orch_now))
    /\ orch_pc' = "returned"
    /\ UNCHANGED <<csv_outcome, api_outcome, orch_now, apiVars, dedupVars, pathVars,
                   csvVars, lakeVars, callVars, cleanupVars, schedVars,
                   readVars, ptrVars, phaseVars, intervalVars>>

(***************************************************************************)
(* The specifications                                                      *)
(***************************************************************************)
\* No call in flight: the ingesters' call locals before any call.
IdleCalls ==
    /\ api_retry_attempts = 0
    /\ max_retries = 0
    /\ op = "none"
    /\ pc = "idle"
    /\ method = "GET"
    /\ attempt = 0
    /\ retries_total = 0
    /\ api_outcomes = <<>>
    /\ wire_requests = 0
    /\ last_wire = "none"
    /\ api_sleeps = <<>>
    /\ api_result = NoResult
    /\ retry_count = 0
    /\ csv_outcomes = <<>>
    /\ csv_sleeps = <<>>
    /\ result = NoIngestResult
    /\ succeeded = [d \in DataTypes |-> <<>>]

\* An empty lake when the run starts.
EmptyLake ==
    /\ now = 0
    /\ lake = {}
    /\ latest = [d \in DataTypes |-> NoFile]

NoDedup ==
    /\ dedup_policy = "none"
    /\ dedup_in = <<>>
    /\ dedup_out = <<>>
    /\ duplicates_removed = 0

\* cleanup_old_data not called, over a lake without partitions.
NoCleanup ==
    /\ tree = {}
    /\ tree_before = {}
    /\ dry_run = TRUE
    /\ cleanup_now = Datetime2024(7, 19, 0)
    /\ cleanup_pc = "idle"
    /\ cleanup_actions = <<>>
    /\ total_size = 0
    /\ rmtree_calls = <<>>

\* The scheduler not constructed.
NoScheduler ==
    /\ sched_running = FALSE
    /\ jobs_status = [j \in Jobs |-> NoJobStatus]
    /\ status_file = NoStatusFile
    /\ schedule_jobs = {}
    /\ sched_pc = "none"
    /\ batch_left = <<>>
    /\ current_job = "none"
    /\ ticks = 0
    /\ stop_seen = FALSE
    /\ inflight_at_stop = "none"
    /\ last_result = "none"

\* run_full_ingestion not called.
NoPipelineRun ==
    /\ orch_pc = "none"
    /\ csv_outcome = NotReturned("none", CsvSources)
    /\ api_outcome = NotReturned("none", ApiEndpoints)
    /\ pipeline_results = InitialPipelineResults
    /\ pipeline_metadata = "absent"
    /\ orch_now = 0
    /\ orch_trace = <<>>

\* No source file at hand.
NoSourceFile ==
    /\ src_lines = <<>>
    /\ chunk_size = 0

\* No latest file being written or read.
NoPointerAccess ==
    /\ pointer_write = NoPointerWrite
    /\ reader_saw = <<>>

(***************************************************************************)
(* organize_data called directly                                           *)
(***************************************************************************)
\* The position of the last "." of a file name.
LastDot(p) ==
    CHOOSE i \in 1..Len(p) :
        /\ SubSeq(p, i, i) = "."
        /\ \A j \in (i + 1)..Len(p) : SubSeq(p, j, j) # "."

\* Path.with_suffix: the path with its last suffix replaced.
with_suffix(p, suffix) == SubSeq(p, 1, LastDot(p) - 1) \o suffix

\* The metadata argument: None (not given, no entries), or a dict.
NoMetadata == [given |-> FALSE, dict |-> <<>>]
MetadataArgs ==
    {NoMetadata,
     [given |-> TRUE, dict |-> <<>>],
     [given |-> TRUE, dict |-> [original_file |-> "data/raw/events.csv"]]}

\* What json.dump writes to metadata_file (size_bytes, created_at and the
\* column count are left out).
metadata_file(f, name, data, data_type, source, m) ==
    [path |-> with_suffix(f, ".metadata.json"),
     file_info |-> [filename |-> name, path |-> f],
     data_info |-> [rows |-> Len(data), data_type |-> data_type, source |-> source],
     metadata |-> m.dict]

\* The timestamps organize_data is called with: two of the same second, and
\* None (the clock is read).
OrganizeTimestamps ==
    {NoTimestamp,
     [year |-> 2024, month |-> 1, day |-> 11, hour |-> 1, minute |-> 59,
      second |-> 1, microsecond |-> 0],
     [year |-> 2024, month |-> 1, day |-> 11, hour |-> 1, minute |-> 59,
      second |-> 1, microsecond |-> 999999]}
OrganizeKinds ==
    {[data_type |-> "events", source |-> "csv_ingestion"],
     [data_type |-> "products", source |-> "api_ingestion"]}
OrganizeFaults == {"none", "mkdir", "data_write", "sidecar_write"}

\* One call organize_data(data, data_type, source, timestamp, metadata) in
\* which the I/O step fault fails, if any.
OrganizeDataCall(data, kind, ts, m, fault) ==
    /\ calls_left > 0
    /\ calls_left' = calls_left - 1
    /\ LET timestamp == IF ts = NoTimestamp THEN DatetimeNow(now) ELSE ts
           f == output_file(kind.data_type, kind.source, timestamp)
           after == organize_data(lake, data, kind.data_type, kind.source, timestamp,
                                  m.dict, fault)
           sidecar == \E o \in after : o.path = f /\ o.sidecar
       IN /\ lake' = after
          /\ organize_call' =
               Append(organize_call,
                      [outcome |-> IF OrganizeRaises(fault) THEN "raised" ELSE "returned",
                       data |-> data,
                       data_type |-> kind.data_type,
                       source |-> kind.source,
                       timestamp |-> timestamp,
                       metadata |-> m,
                       returned |-> IF OrganizeRaises(fault) THEN "" ELSE f,
                       sidecar |-> IF sidecar /\ fault # "mkdir"
                                   THEN {metadata_file(f, filename(kind.data_type,
                                                                   kind.source,
                                                                   timestamp),
                                                       data, kind.data_type,
                                                       kind.source, m)}
                                   ELSE {}])
    /\ UNCHANGED <<now, latest, op, pc, result, succeeded, phase_run, apiVars, dedupVars,
                   pathVars, csvVars, cleanupVars, schedVars, orchVars, readVars, ptrVars,
                   intervalVars>>

(***************************************************************************)
(* run_full_csv_ingestion and run_ingestion: the sources of one phase      *)
(***************************************************************************)
\* self.ingestion_stats as __init__ sets it: the sources processed and
\* failed (files_processed / files_failed, apis_processed / apis_failed).
NoStats == [processed |-> 0, failed |-> 0]

\* No phase has run: each ingester has the statistics of its construction,
\* and no ingestion metadata file is written.
NoPhase ==
    [pc |-> "none", phase |-> "none", pending |-> <<>>, results |-> <<>>,
     error |-> "", stats |-> [csv |-> NoStats, api |-> NoStats], saved |-> <<>>]

\* The two file ingestions, in the order run_full_csv_ingestion calls them.
CsvSourceOrder == <<"events", "item_properties">>

\* config['api_endpoints'] as configured: none, one or both sample endpoints.
EndpointConfigs == {<<>>, <<"products">>, EndpointOrder}

\* How the call of one source ends. A file ingestion returns its result, of
\* status success or failed (its except branch catches every Exception);
\* ingest_endpoint returns a result, failed at the request, at the
\* processing or at the save, or raises.
CsvSourceOutcomes == {"success", "failed"}
EndpointOutcomes ==
    {"success", "request_failed", "processing_failed", "save_failed", "raised"}

\* The entry run_ingestion and run_full_csv_ingestion put into results.
SourceEntry(source, outcome) ==
    [source |-> source,
     status |-> IF outcome = "success" THEN "success" ELSE "failed",
     error |-> CASE outcome = "success" -> ""
                 [] outcome = "raised" -> "Critical error processing " \o source
                 [] OTHER -> outcome]

\* The files a successful source adds to the processed count: the events
\* file, both item-properties files, one endpoint.
Processed(source) == IF source = "item_properties" THEN 2 ELSE 1

\* The statistics a run starts from: those the ingester object holds, which
\* only __init__ sets to zero.
StatsAtStart(stats) == stats

\* The update of the statistics after a source ended with outcome.
StatsAfter(stats, source, outcome) ==
    IF outcome = "success"
    THEN [stats EXCEPT !.processed = @ + Processed(source)]
    ELSE [stats EXCEPT !.failed = @ + 1]

PhaseGoesOn_StopsAtFailure(phase, outcome) == outcome = "success"

\* Does the phase go on to its next source after this one ended with
\* outcome? run_ingestion catches what ingest_endpoint raises and stays in
\* its loop; run_full_csv_ingestion calls the item-properties ingestion
\* whatever result the events ingestion returned, and re-raises what a call
\* raises.
PhaseGoesOn(phase, outcome) == phase = "api" \/ outcome # "raised"

\* run_full_csv_ingestion is called.
StartCsvPhase ==
    /\ phase_run.pc # "running"
    /\ calls_left > 0
    /\ calls_left' = calls_left - 1
    /\ phase_run' = [pc |-> "running", phase |-> "csv", pending |-> CsvSourceOrder,
                     results |-> <<>>, error |-> "",
                     stats |-> [phase_run.stats EXCEPT !.csv = StatsAtStart(@)],
                     saved |-> <<>>]
    /\ UNCHANGED <<op, pc, result, succeeded, organize_call, apiVars, dedupVars, pathVars,
                   csvVars, lakeVars, cleanupVars, schedVars, orchVars, readVars, ptrVars,
                   intervalVars>>

\* run_ingestion is called: with no endpoint configured it returns at once.
StartApiPhase(endpoints) ==
    /\ phase_run.pc # "running"
    /\ calls_left > 0
    /\ calls_left' = calls_left - 1
    /\ phase_run' = [pc |-> IF endpoints = <<>> THEN "returned" ELSE "running",
                     phase |-> "api", pending |-> endpoints, results |-> <<>>,
                     error |-> IF endpoints = <<>> THEN "No API endpoints configured"
                               ELSE "",
                     stats |-> [phase_run.stats EXCEPT !.api = StatsAtStart(@)],
                     saved |-> <<>>]
    /\ UNCHANGED <<op, pc, result, succeeded, organize_call, apiVars, dedupVars, pathVars,
                   csvVars, lakeVars, cleanupVars, schedVars, orchVars, readVars, ptrVars,
                   intervalVars>>

\* The next source of the phase is ingested and ends with outcome; after
\* the last one the phase writes its ingestion metadata file, the
\* statistics of the ingester in it, and returns its results.
IngestSource(outcome) ==
    /\ phase_run.pc = "running"
    /\ outcome \in IF phase_run.phase = "csv" THEN CsvSourceOutcomes ELSE EndpointOutcomes
    /\ LET source == Head(phase_run.pending)
           goes_on == PhaseGoesOn(phase_run.phase, outcome)
           left == IF goes_on THEN Tail(phase_run.pending) ELSE <<>>
       IN phase_run' =
            [phase_run EXCEPT
                !.results = Append(@, SourceEntry(source, outcome)),
                !.pending = left,
                !.stats[phase_run.phase] = StatsAfter(@, source, outcome),
                !.saved = IF goes_on /\ left = <<>>
                          THEN <<StatsAfter(phase_run.stats[phase_run.phase], source,
                                            outcome)>>
                          ELSE <<>>,
                !.pc = CASE ~goes_on -> "raised"
                         [] left = <<>> -> "returned"
                         [] OTHER -> "running"]
    /\ UNCHANGED <<op, pc, result, calls_left, succeeded, organize_call, apiVars, dedupVars,
                   pathVars, csvVars, lakeVars, cleanupVars, schedVars, orchVars, readVars,
                   ptrVars, intervalVars>>

(***************************************************************************)
(* parse_interval and schedule_job                                         *)
(***************************************************************************)
MinutesPerHour == 60
MinutesPerDay == 1440

\* int() of a string of decimal digits.
DigitValue(c) ==
    CASE c = "0" -> 0 [] c = "1" -> 1 [] c = "2" -> 2 [] c = "3" -> 3 [] c = "4" -> 4
      [] c = "5" -> 5 [] c = "6" -> 6 [] c = "7" -> 7 [] c = "8" -> 8 [] c = "9" -> 9

RECURSIVE int(_)
int(str) ==
    IF Len(str) = 0 THEN 0
    ELSE int(SubSeq(str, 1, Len(str) - 1)) * 10 + DigitValue(SubSeq(str, Len(str), Len(str)))

endswith(str, suffix) == Len(str) >= 1 /\ SubSeq(str, Len(str), Len(str)) = suffix

\* parse_interval: the interval string in minutes.
parse_interval(interval_str) ==
    CASE endswith(interval_str, "m") -> int(SubSeq(interval_str, 1, Len(interval_str) - 1))
      [] endswith(interval_str, "h") ->
            int(SubSeq(interval_str, 1, Len(interval_str) - 1)) * MinutesPerHour
      [] endswith(interval_str, "d") ->
            int(SubSeq(interval_str, 1, Len(interval_str) - 1)) * MinutesPerDay
      [] OTHER -> int(interval_str)

\* A trigger of the schedule library: every(n).minutes / .hours / .days, or
\* every().day.at(start_time).
IntervalTrigger(n, unit) == [kind |-> "interval", every |-> n, unit |-> unit, at |-> ""]
DailyTrigger(start_time) == [kind |-> "daily", every |-> 1, unit |-> "days", at |-> start_time]

\* The interval trigger schedule_job registers for interval_minutes.
interval_trigger(interval_minutes) ==
    CASE interval_minutes < MinutesPerHour -> IntervalTrigger(interval_minutes, "minutes")
      [] interval_minutes < MinutesPerDay ->
            IntervalTrigger(interval_minutes \div MinutesPerHour, "hours")
      [] OTHER -> IntervalTrigger(interval_minutes \div MinutesPerDay, "days")

\* The period of an interval trigger, in minutes.
PeriodMinutes(t) ==
    CASE t.unit = "minutes" -> t.every
      [] t.unit = "hours" -> t.every * MinutesPerHour
      [] t.unit = "days" -> t.every * MinutesPerDay

\* The interval strings of the scheduling configuration: N followed by m, h
\* or d, or N alone.
IntervalCounts == {1, 2, 6, 30, 59, 60, 90, 120, 1439, 1440, 2000}
IntervalSuffixes == {"m", "h", "d", ""}
IntervalStrings == {ToString(n) \o x : n \in IntervalCounts, x \in IntervalSuffixes}
StartTimes == {"", "08:00", "09:00"}

NoScheduleCall ==
    schedule_call = [pc |-> "none", interval_str |-> "", start_time |-> "", registered |-> <<>>]

\* schedule_job(job_name, job_func, interval_str, start_time): the daily
\* trigger when a start_time is given, then the interval trigger.
ScheduleJob ==
    /\ schedule_call.pc = "called"
    /\ schedule_call' =
         [schedule_call EXCEPT
             !.pc = "returned",
             !.registered =
                 (IF schedule_call.start_time # ""
                  THEN <<DailyTrigger(schedule_call.start_time)>> ELSE <<>>)
                     \o <<interval_trigger(parse_interval(schedule_call.interval_str))>>]
    /\ UNCHANGED <<apiVars, dedupVars, pathVars, csvVars, lakeVars, callVars, cleanupVars,
                   schedVars, orchVars, readVars, ptrVars, phaseVars>>

\* No direct call of organize_data, no phase under way.
NoPhaseRun ==
    /\ organize_call = <<>>
    /\ phase_run = NoPhase

NoPathCall ==
    /\ path_args = [tier |-> "raw", data_type |-> "events", source |-> "csv_ingestion",
                    ts1 |-> NoTimestamp, ts2 |-> NoTimestamp]
    /\ path_out = <<>>

\* One ingestion call (of any of the three sources, with any retry
\* ceiling up to MaxRetryAttempts) by ingesters just constructed, over an
\* empty lake.
Init ==
    /\ calls_left = 1
    /\ IdleCalls
    /\ EmptyLake
    /\ NoDedup
    /\ NoPathCall
    /\ NoCleanup
    /\ NoScheduler
    /\ NoPipelineRun
    /\ NoSourceFile
    /\ NoPointerAccess
    /\ NoPhaseRun
    /\ NoScheduleCall

Next ==
    \/ \E m \in Methods, n \in 0..MaxRetryAttempts : ApiStart(m, n)
    \/ \E w \in WireOutcomes : ApiWireRequest(w)
    \/ \E raw \in ApiResponses, fault \in IoFaults : SaveApiData(raw, fault)
    \/ ApiReturn
    \/ \E d \in {"events", "item_properties"}, n \in 0..MaxRetryAttempts : CsvStart(d, n)
    \/ \E f \in EventFiles, fault \in IoFaults : IngestEventsAttempt(f, fault)
    \/ \E f1 \in ItemFilesPart1, f2 \in ItemFilesPart2, fault \in IoFaults :
          IngestItemPropertiesAttempt(<<f1, f2>>, fault)
    \/ CsvReturn
    \/ Tick

Spec == Init /\ [][Next]_vars

(***************************************************************************)
(* Runs of MaxCalls ingestion calls one after the other (events from the   *)
(* CSV file and products from the API), over an empty lake: what the calls *)
(* leave in the lake and in the latest files.                              *)
(***************************************************************************)
InitLake ==
    /\ calls_left = MaxCalls
    /\ IdleCalls
    /\ EmptyLake
    /\ NoDedup
    /\ NoPathCall
    /\ NoCleanup
    /\ NoScheduler
    /\ NoPipelineRun
    /\ NoSourceFile
    /\ NoPointerAccess
    /\ NoPhaseRun
    /\ NoScheduleCall

\* The I/O faults of the save steps, and the source files that reach them.
SaveFaults == {"none", "mkdir", "data_write", "latest_write", "archive_copy"}
LakeEventFiles == EventFiles \ {InvalidFile}

NextLake ==
    \/ ApiStart("GET", 1)
    \/ \E w \in {"200", "404"} : ApiWireRequest(w)
    \/ \E raw \in ApiResponses, fault \in SaveFaults : SaveApiData(raw, fault)
    \/ ApiReturn
    \/ \E n \in 0..1 : CsvStart("events", n)
    \/ \E f \in LakeEventFiles, fault \in SaveFaults : IngestEventsAttempt(f, fault)
    \/ CsvReturn
    \/ Tick

SpecLake == InitLake /\ [][NextLake]_vars

(***************************************************************************)
(* The dedup step alone, on every DataFrame of at most MaxRows rows.       *)
(***************************************************************************)
InitDedup ==
    /\ calls_left = 0
    /\ IdleCalls
    /\ EmptyLake
    /\ NoPathCall
    /\ NoCleanup
    /\ NoScheduler
    /\ NoPipelineRun
    /\ NoSourceFile
    /\ NoPointerAccess
    /\ NoPhaseRun
    /\ NoScheduleCall
    /\ \/ dedup_policy = "events_pending" /\ dedup_in \in BoundedSeq(EventRows, MaxRows)
       \/ dedup_policy = "items_pending" /\ dedup_in \in BoundedSeq(ItemRows, MaxRows)
    /\ dedup_out = <<>>
    /\ duplicates_removed = 0

NextDedup ==
    \/ DedupeEventsStep
    \/ DedupeItemsStep

SpecDedup == InitDedup /\ [][NextDedup]_vars

(***************************************************************************)
(* The path builder alone, on pairs of calls.                              *)
(***************************************************************************)
InitPath ==
    /\ calls_left = 0
    /\ IdleCalls
    /\ EmptyLake
    /\ NoDedup
    /\ NoCleanup
    /\ NoScheduler
    /\ NoPipelineRun
    /\ NoSourceFile
    /\ NoPointerAccess
    /\ NoPhaseRun
    /\ NoScheduleCall
    /\ path_args \in [tier : PathTiers, data_type : PathDataTypes, source : PathSources,
                      ts1 : PathTimestamps, ts2 : PathTimestamps]
    /\ path_out = <<>>

NextPath == CallCreatePartitionedPath

SpecPath == InitPath /\ [][NextPath]_vars

(***************************************************************************)
(* One call of cleanup_old_data, dry or not, on every tree made of the     *)
(* partitions of PartitionUniverse.                                        *)
(***************************************************************************)
InitCleanup ==
    /\ calls_left = 0
    /\ IdleCalls
    /\ EmptyLake
    /\ NoDedup
    /\ NoPathCall
    /\ tree \in SUBSET PartitionUniverse
    /\ tree_before = tree
    /\ dry_run \in BOOLEAN
    /\ cleanup_now \in CleanupNows
    /\ cleanup_pc = "called"
    /\ cleanup_actions = <<>>
    /\ total_size = 0
    /\ rmtree_calls = <<>>
    /\ NoScheduler
    /\ NoPipelineRun
    /\ NoSourceFile
    /\ NoPointerAccess
    /\ NoPhaseRun
    /\ NoScheduleCall

NextCleanup ==
    \/ CleanupCollect
    \/ \E outcome \in RmtreeOutcomes : CleanupRmtree(outcome)
    \/ CleanupDryRunReport

SpecCleanup == InitCleanup /\ [][NextCleanup]_vars

(***************************************************************************)
(* The scheduler from its construction: start(), the poll loop for at most *)
(* MaxTicks iterations, and a shutdown signal at any moment.               *)
(***************************************************************************)
InitSched ==
    /\ calls_left = 0
    /\ IdleCalls
    /\ EmptyLake
    /\ NoDedup
    /\ NoPathCall
    /\ NoCleanup
    /\ sched_running = FALSE
    /\ jobs_status = [j \in Jobs |-> NoJobStatus]
    /\ status_file = NoStatusFile
    /\ schedule_jobs = {}
    /\ sched_pc = "constructed"
    /\ batch_left = <<>>
    /\ current_job = "none"
    /\ ticks = 0
    /\ stop_seen = FALSE
    /\ inflight_at_stop = "none"
    /\ last_result = "none"
    /\ NoPipelineRun
    /\ NoSourceFile
    /\ NoPointerAccess
    /\ NoPhaseRun
    /\ NoScheduleCall

NextSched ==
    \/ SchedStart
    \/ \E due \in DueBatches : LoopTest(due)
    \/ JobBegin
    \/ \E kind \in UNION {JobResultKinds(j) : j \in Jobs}, save \in SaveOutcomes :
          JobEnd(kind, save)
    \/ RunPendingDone
    \/ SleepDone
    \/ \E save \in SaveOutcomes : SignalHandler(save)

SpecSched == InitSched /\ [][NextSched]_vars

\* Job bodies return, sleeps end and the loop goes on.
FairSched ==
    /\ WF_vars(\E due \in DueBatches : LoopTest(due))
    /\ WF_vars(JobBegin)
    /\ WF_vars(\E kind \in UNION {JobResultKinds(j) : j \in Jobs}, save \in SaveOutcomes :
                  JobEnd(kind, save))
    /\ WF_vars(RunPendingDone)
    /\ WF_vars(SleepDone)

SpecSchedLive == InitSched /\ [][NextSched]_vars /\ FairSched

(***************************************************************************)
(* One call of run_full_ingestion, with every outcome of the two phases.   *)
(***************************************************************************)
InitOrch ==
    /\ calls_left = 0
    /\ IdleCalls
    /\ EmptyLake
    /\ NoDedup
    /\ NoPathCall
    /\ NoCleanup
    /\ NoScheduler
    /\ orch_pc = "called"
    /\ csv_outcome = NotReturned("none", CsvSources)
    /\ api_outcome = NotReturned("none", ApiEndpoints)
    /\ pipeline_results = InitialPipelineResults
    /\ pipeline_metadata = "absent"
    /\ orch_now = 0
    /\ orch_trace = <<>>
    /\ NoSourceFile
    /\ NoPointerAccess
    /\ NoPhaseRun
    /\ NoScheduleCall

NextOrch ==
    \/ \E init_ok \in BOOLEAN : OrchCall(init_ok)
    \/ \E outcome \in CsvOutcomes, duration \in PhaseDurations : RunCsvPhase(outcome, duration)
    \/ Cooldown
    \/ \E outcome \in ApiOutcomes, duration \in PhaseDurations : RunApiPhase(outcome, duration)
    \/ \E saved \in BOOLEAN : Aggregate(saved)

SpecOrch == InitOrch /\ [][NextOrch]_vars

(***************************************************************************)
(* One call of ingest_events_csv or ingest_item_properties_csv on a source *)
(* file of up to MaxLines lines read in chunks, without I/O fault.         *)
(***************************************************************************)
InitRead ==
    /\ calls_left = 1
    /\ IdleCalls
    /\ EmptyLake
    /\ NoDedup
    /\ NoPathCall
    /\ NoCleanup
    /\ NoScheduler
    /\ NoPipelineRun
    /\ NoPointerAccess
    /\ NoPhaseRun
    /\ NoScheduleCall
    /\ src_lines \in SourceFiles
    /\ chunk_size \in ChunkSizes

NextRead ==
    \/ \E d \in {"events", "item_properties"}, n \in 0..1 : CsvStart(d, n)
    \/ IngestEventsAttempt(ReadCsvFile(src_lines, chunk_size, "events"), "none")
    \/ IngestItemPropertiesAttempt(
          <<ReadCsvFile(src_lines, chunk_size, "item_properties"), MissingFile>>, "none")
    \/ CsvReturn

SpecRead == InitRead /\ [][NextRead]_vars

(***************************************************************************)
(* MaxCalls writes of latest files by ingestions, and a reader.            *)
(***************************************************************************)
InitPointer ==
    /\ calls_left = MaxCalls
    /\ IdleCalls
    /\ EmptyLake
    /\ NoDedup
    /\ NoPathCall
    /\ NoCleanup
    /\ NoScheduler
    /\ NoPipelineRun
    /\ NoSourceFile
    /\ NoPointerAccess
    /\ NoPhaseRun
    /\ NoScheduleCall

NextPointer ==
    \/ \E d \in {"events", "products"}, data \in PointerBatches : ToParquetOpen(d, data)
    \/ ToParquetClose
    \/ \E d \in {"events", "products"} : ReadLatest(d)

SpecPointer == InitPointer /\ [][NextPointer]_vars

(***************************************************************************)
(* MaxCalls direct calls of organize_data over an empty lake.              *)
(***************************************************************************)
InitOrganize ==
    /\ calls_left = MaxCalls
    /\ IdleCalls
    /\ EmptyLake
    /\ NoDedup
    /\ NoPathCall
    /\ NoCleanup
    /\ NoScheduler
    /\ NoPipelineRun
    /\ NoSourceFile
    /\ NoPointerAccess
    /\ NoPhaseRun
    /\ NoScheduleCall

\* The calls made: every argument combination without a fault, and the
\* faults on the calls that read the clock.
OrganizeCalls ==
    {c \in [data : PointerBatches, kind : OrganizeKinds, ts : OrganizeTimestamps,
            m : MetadataArgs, fault : OrganizeFaults] :
        c.fault = "none" \/ (c.ts = NoTimestamp /\ c.data = <<EventRow(1, "view")>>)}

NextOrganize ==
    \E c \in OrganizeCalls : OrganizeDataCall(c.data, c.kind, c.ts, c.m, c.fault)

SpecOrganize == InitOrganize /\ [][NextOrganize]_vars

(***************************************************************************)
(* MaxCalls phases, one after the other, of the same ingester objects.     *)
(***************************************************************************)
InitPhase ==
    /\ calls_left = MaxCalls
    /\ IdleCalls
    /\ EmptyLake
    /\ NoDedup
    /\ NoPathCall
    /\ NoCleanup
    /\ NoScheduler
    /\ NoPipelineRun
    /\ NoSourceFile
    /\ NoPointerAccess
    /\ NoPhaseRun
    /\ NoScheduleCall

NextPhase ==
    \/ StartCsvPhase
    \/ \E endpoints \in EndpointConfigs : StartApiPhase(endpoints)
    \/ \E outcome \in CsvSourceOutcomes \cup EndpointOutcomes : IngestSource(outcome)

SpecPhase == InitPhase /\ [][NextPhase]_vars

(***************************************************************************)
(* One call of schedule_job with an interval of the configuration.         *)
(***************************************************************************)
InitInterval ==
    /\ calls_left = 0
    /\ IdleCalls
    /\ EmptyLake
    /\ NoDedup
    /\ NoPathCall
    /\ NoCleanup
    /\ NoScheduler
    /\ NoPipelineRun
    /\ NoSourceFile
    /\ NoPointerAccess
    /\ NoPhaseRun
    /\ \E i \in IntervalStrings, t \in StartTimes :
          schedule_call = [pc |-> "called", interval_str |-> i, start_time |-> t,
                           registered |-> <<>>]

NextInterval == ScheduleJob

SpecInterval == InitInterval /\ [][NextInterval]_vars

(***************************************************************************)
(* Properties                                                              *)
(***************************************************************************)
AllExceptions(outcomes) == \A i \in DOMAIN outcomes : outcomes[i] = "exception"

\* C1: make_api_request with retry_attempts = N, when every session.request
\* call raises a request exception, makes exactly N such calls and returns
\* failure: it never returns before the N-th call and never makes an
\* (N+1)-th.
C1_ExactlyNAttemptsThenFailure ==
    /\ Len(api_outcomes) <= api_retry_attempts
    /\ (op = "api" /\ pc = "returned" /\ AllExceptions(api_outcomes))
         => /\ Len(api_outcomes) = api_retry_attempts
            /\ api_result.success = FALSE

C1_Witness ==
    /\ op = "api" /\ pc = "returned"
    /\ api_retry_attempts = MaxRetryAttempts
    /\ Len(api_outcomes) = MaxRetryAttempts
    /\ wire_requests > MaxRetryAttempts
    /\ AllExceptions(api_outcomes)
    /\ api_result.success = FALSE

NoSuccess(outcomes) == \A i \in DOMAIN outcomes : outcomes[i] # "success"

\* C2 as stated: a file ingestion with retry_attempts = N whose every
\* attempt fails returns status failed after exactly N attempts.
C2_ExactlyNAttemptsThenFailed ==
    (op \in {"events", "item_properties"} /\ pc = "returned"
        /\ result.status = "failed")
      => Len(csv_outcomes) = max_retries

\* C2, amended: a file ingestion with retry_attempts = N whose every attempt
\* fails makes exactly N + 1 attempts (the first call and N retries, one
\* sleep before each retry) and then returns status failed with the last
\* error: it never returns before attempt N + 1 and never makes attempt N + 2.
C2_NPlusOneAttemptsThenFailed ==
    /\ Len(csv_outcomes) <= max_retries + 1
    /\ (op \in {"events", "item_properties"} /\ pc = "returned"
            /\ NoSuccess(csv_outcomes))
         => /\ Len(csv_outcomes) = max_retries + 1
            /\ Len(csv_sleeps) = max_retries
            /\ result.status = "failed"
            /\ result.errors = <<csv_outcomes[Len(csv_outcomes)]>>

C2_Witness ==
    /\ op = "events" /\ pc = "returned"
    /\ max_retries = MaxRetryAttempts
    /\ Len(csv_outcomes) = MaxRetryAttempts + 1
    /\ NoSuccess(csv_outcomes)
    /\ result.status = "failed"

\* C3: a retried operation returns success at its first successful attempt:
\* a success is always the last attempt made (none follows it), a call that
\* returned success made exactly K attempts, K - 1 failed ones and then the
\* successful one, and K is within the attempt ceiling (retry_attempts for
\* make_api_request, retry_attempts + 1 for the file ingestions).
C3_SuccessAfterExactlyKAttempts ==
    /\ \A i \in DOMAIN api_outcomes :
          api_outcomes[i] = "200" =>
              /\ i = Len(api_outcomes)
              /\ pc \in {"returned", "saved"}
              /\ api_result.success
    /\ (op = "api" /\ pc = "returned" /\ api_result.success)
         => /\ Len(api_outcomes) >= 1
            /\ api_outcomes[Len(api_outcomes)] = "200"
            /\ attempt = Len(api_outcomes)
            /\ Len(api_outcomes) <= api_retry_attempts
    /\ \A i \in DOMAIN csv_outcomes :
          csv_outcomes[i] = "success" =>
              /\ i = Len(csv_outcomes)
              /\ pc = "returned"
              /\ result.status = "success"
    /\ (op \in {"events", "item_properties"} /\ pc = "returned"
            /\ result.status = "success")
         => /\ Len(csv_outcomes) >= 1
            /\ csv_outcomes[Len(csv_outcomes)] = "success"
            /\ Len(csv_outcomes) = retry_count + 1
            /\ Len(csv_outcomes) <= max_retries + 1

C3_Witness ==
    /\ op = "api" /\ pc = "returned"
    /\ api_retry_attempts = MaxRetryAttempts
    /\ Len(api_outcomes) = MaxRetryAttempts
    /\ api_outcomes[1] = "exception"
    /\ api_outcomes[Len(api_outcomes)] = "200"
    /\ api_result.success

\* C4: a 4xx status other than 429 handed to the loop ends the call at once:
\* it is the last attempt of the call, the call has returned failure, and no
\* sleep follows it (the sleeps of the call are those of the earlier
\* attempts only), whatever retry_attempts is.
C4_NonRetryableFailsImmediately ==
    \A i \in DOMAIN api_outcomes :
        api_outcomes[i] = "404" =>
            /\ i = Len(api_outcomes)
            /\ pc = "returned"
            /\ api_result = [success |-> FALSE, error |-> HttpError("404")]
            /\ Len(api_sleeps) = i - 1

C4_Witness ==
    /\ op = "api" /\ pc = "returned"
    /\ api_retry_attempts = MaxRetryAttempts
    /\ api_outcomes = <<"404">>
    /\ api_sleeps = <<>>
    /\ api_result.success = FALSE

\* C5: an HTTP 5xx answer is transient: a call that ends in failure on a 5xx
\* answer has used all retry_attempts attempts.
C5_ServerErrorRetriedToCeiling ==
    (op = "api" /\ pc = "returned" /\ last_wire \in {"501", "503"}
        /\ api_result.success = FALSE)
      => Len(api_outcomes) = api_retry_attempts

AtLeastOneSecondApart(a, b) ==
    LET d == SecondsInto2024(a) - SecondsInto2024(b)
    IN \/ d >= 2
       \/ d = 1 /\ a.microsecond >= b.microsecond
       \/ d <= -2
       \/ d = -1 /\ b.microsecond >= a.microsecond

TruncatedToSeconds(ts) == [ts EXCEPT !.microsecond = 0]

\* C6: for one (tier, data type, source), create_partitioned_path depends on
\* the timestamp truncated to seconds only (two timestamps with the same
\* truncation give the same path), and two timestamps at least one second
\* apart give different paths.
C6_PathDeterminedBySecond ==
    path_out # <<>> =>
        /\ TruncatedToSeconds(path_args.ts1) = TruncatedToSeconds(path_args.ts2)
             => path_out[1] = path_out[2]
        /\ AtLeastOneSecondApart(path_args.ts1, path_args.ts2)
             => path_out[1] # path_out[2]

C6_Witness ==
    /\ path_out # <<>>
    /\ SecondsInto2024(path_args.ts2) - SecondsInto2024(path_args.ts1) = 1
    /\ path_args.ts1.microsecond = path_args.ts2.microsecond
    /\ path_out[1] # path_out[2]
    /\ path_out[1] = "data/raw/source=csv_ingestion/type=events/timestamp=20240111_015900"

\* out is the rows of df at the indices kept, in increasing index order.
IsSelection(out, df, kept) ==
    /\ Len(out) = Cardinality(kept)
    /\ \A i \in kept : out[Cardinality({j \in kept : j <= i})] = df[i]

\* C7: events dedup keeps row i iff no earlier row equals it in all fields,
\* keeps the survivors in their original order, and duplicates_removed is
\* the number of rows equal to an earlier row (input length minus output
\* length).
C7_FullRowKeepFirst ==
    dedup_policy = "events" =>
        LET df == dedup_in
            kept == {i \in 1..Len(df) : \A j \in 1..(i - 1) : df[j] # df[i]}
            dups == {i \in 1..Len(df) : \E j \in 1..(i - 1) : df[j] = df[i]}
        IN /\ IsSelection(dedup_out, df, kept)
           /\ duplicates_removed = Cardinality(dups)
           /\ duplicates_removed = Len(df) - Len(dedup_out)

C7_Witness ==
    /\ dedup_policy = "events"
    /\ Len(dedup_in) = 3
    /\ dedup_in[1] = dedup_in[3]
    /\ dedup_in[1] # dedup_in[2]
    /\ dedup_out = <<dedup_in[1], dedup_in[2]>>
    /\ duplicates_removed = 1

ItemKey(row) == <<row.itemid, row.property>>

\* C8: item-properties dedup keeps row i iff no later row has the same
\* (itemid, property): of the rows sharing a key the last one survives, a
\* row with a unique key survives, and the survivors keep their original
\* order.
C8_KeySubsetKeepLast ==
    dedup_policy = "items" =>
        LET df == dedup_in
            kept == {i \in 1..Len(df) :
                        \A j \in (i + 1)..Len(df) : ItemKey(df[j]) # ItemKey(df[i])}
        IN /\ IsSelection(dedup_out, df, kept)
           /\ duplicates_removed = Len(df) - Cardinality(kept)

C8_Witness ==
    /\ dedup_policy = "items"
    /\ Len(dedup_in) = 3
    /\ ItemKey(dedup_in[1]) = ItemKey(dedup_in[3])
    /\ dedup_in[1].value # dedup_in[3].value
    /\ ItemKey(dedup_in[1]) # ItemKey(dedup_in[2])
    /\ dedup_out = <<dedup_in[2], dedup_in[3]>>

\* The source an ingestion of data type d stores its batches under.
IngestionSource(d) == IF d = "products" THEN "api_ingestion" ELSE "csv_ingestion"

\* The ingestion of data type d in flight has just returned success.
JustSucceeded(d) ==
    /\ result.status = "success"
    /\ \/ op = d /\ pc = "returned"
       \/ d = "products" /\ op = "api" /\ pc = "saved"

\* C9: when a successful ingestion of a data type follows an earlier
\* successful one, the latest file of the data type holds the batch of the
\* later call, and not that of the earlier call when the two differ.
C9_LatestIsSecondBatch ==
    \A d \in DataTypes :
        (JustSucceeded(d) /\ Len(succeeded[d]) >= 2) =>
            LET k == Len(succeeded[d])
            IN /\ latest[d] = Written(succeeded[d][k])
               /\ succeeded[d][k - 1] # succeeded[d][k]
                    => latest[d].rows # succeeded[d][k - 1]

C9_Witness ==
    /\ JustSucceeded("events")
    /\ Len(succeeded["events"]) = 2
    /\ succeeded["events"][1] # succeeded["events"][2]
    /\ Len(succeeded["events"][1]) > Len(succeeded["events"][2])
    /\ latest["events"] = Written(succeeded["events"][2])

\* The step is an attempt (of a file ingestion, or of save_api_data) whose
\* organize_data raised.
OrganizeFailedStep ==
    \/ /\ Len(csv_outcomes') = Len(csv_outcomes) + 1
       /\ csv_outcomes'[Len(csv_outcomes')] = "organize_failed"
    \/ /\ op = "api" /\ pc = "returned" /\ pc' = "saved"
       /\ result'.errors = <<"organize_failed">>

\* C10: a step changes the latest file of a data type only when
\* organize_data has stored the whole batch of that data type (data file and
\* sidecar) in that step, and a step whose organize_data raises (at the
\* mkdir, the data write or the sidecar write) leaves every latest file as
\* it was.
C10_PointerOnlyAfterOrganize ==
    [][/\ \A d \in DataTypes :
            latest'[d] # latest[d] =>
                \E o \in lake' :
                    /\ o.path = output_file(d, IngestionSource(d), DatetimeNow(now))
                    /\ o.data_type = d
                    /\ o.complete
                    /\ o.sidecar
                    /\ latest'[d] \in {Written(o.rows), Truncated}
       /\ OrganizeFailedStep => latest' = latest]_vars

C10_Witness ==
    /\ op = "events"
    /\ Len(csv_outcomes) = 2
    /\ csv_outcomes[1] = "archive_failed"
    /\ csv_outcomes[2] = "organize_failed"
    /\ latest["events"].state = "written"
    /\ \E o \in lake : ~o.complete

\* The paths listed in cleanup_actions.
CandidatePaths == {cleanup_actions[i].path : i \in DOMAIN cleanup_actions}

\* cleanup_old_data is past its scan.
Collected == cleanup_pc \in {"deleting", "reporting", "returned"}

\* C11: the scan collects the partitions written by the storage organizer
\* (source=/type=/timestamp= directories of create_partitioned_path) of the
\* tiers with a retention entry that are strictly older than
\* now - retention_days, and nothing that is not older than the cutoff.
C11_CollectsOrganizerPartitions ==
    Collected =>
        /\ \A p \in tree_before :
              (/\ p.tier \in DOMAIN retention_days
               /\ p.segments = OrganizerSegments
               /\ OlderThanCutoff(p.date, cleanup_now, retention_days[p.tier]))
                => p \in CandidatePaths
        /\ \A p \in CandidatePaths :
              OlderThanCutoff(p.date, cleanup_now, retention_days[p.tier])

\* The partitions of a tree that the scan is to find: the year=/month=/day=
\* directories of a tier with a retention entry, dated before the cutoff.
ExpectedCandidates(tr, nowts) ==
    {p \in tr : /\ p.tier \in DOMAIN retention_days
                /\ p.segments = DateSegments
                /\ OlderThanCutoff(p.date, nowts, retention_days[p.tier])}

SizeOf(S) == SumSizes(CHOOSE q \in Orderings(S) : TRUE)

AllDeleted ==
    \A i \in DOMAIN rmtree_calls : rmtree_calls[i].outcome = "deleted"

\* C12: a dry run never changes the tree and calls no rmtree; the candidates
\* and the total size it computes are a function of the tree and the clock
\* alone, and they are what a non-dry run on the same tree deletes when its
\* deletions succeed.
C12_DryRunMutatesNothing ==
    /\ dry_run => (tree = tree_before /\ rmtree_calls = <<>>)
    /\ Collected =>
          /\ CandidatePaths = ExpectedCandidates(tree_before, cleanup_now)
          /\ Len(cleanup_actions) = Cardinality(CandidatePaths)
          /\ total_size = SizeOf(ExpectedCandidates(tree_before, cleanup_now))
    /\ (~dry_run /\ cleanup_pc = "returned" /\ AllDeleted) =>
          /\ tree_before \ tree = ExpectedCandidates(tree_before, cleanup_now)
          /\ tree \subseteq tree_before
          /\ SizeOf(tree_before \ tree) = total_size

C12_Witness ==
    /\ dry_run
    /\ cleanup_pc = "returned"
    /\ Len(cleanup_actions) = 3
    /\ total_size = 150
    /\ tree = tree_before
    /\ tree = PartitionUniverse

\* C13: a non-dry run calls rmtree on the candidates in the order of the
\* list, which is oldest first, on every one of them whatever the outcome of
\* the earlier calls, and on nothing else: partitions that are not
\* candidates (those of a tier without a retention entry among them) stay
\* as they were.
C13_DeletesEveryCandidateOldestFirst ==
    /\ \A i \in DOMAIN rmtree_calls : rmtree_calls[i].path = cleanup_actions[i].path
    /\ \A i, j \in DOMAIN cleanup_actions :
          i < j => SecondsInto2024(cleanup_actions[i].date)
                      <= SecondsInto2024(cleanup_actions[j].date)
    /\ cleanup_pc = "deleting" => Len(rmtree_calls) < Len(cleanup_actions)
    /\ (~dry_run /\ cleanup_pc = "returned") => Len(rmtree_calls) = Len(cleanup_actions)
    /\ \A p \in tree_before : p \notin CandidatePaths => p \in tree
    /\ \A p \in tree : p \in tree_before \/ \E q \in CandidatePaths :
                                              q.tier = p.tier /\ q.date = p.date

C13_Witness ==
    /\ ~dry_run
    /\ cleanup_pc = "returned"
    /\ Len(rmtree_calls) = 3
    /\ rmtree_calls[1].outcome = "failed_untouched"
    /\ rmtree_calls[2].outcome = "deleted"
    /\ rmtree_calls[3].outcome = "deleted"
    /\ tree_before = PartitionUniverse
    /\ Cardinality(tree) = Cardinality(tree_before) - 2


(***************************************************************************)
(* IngestionScheduler: job status                                          *)
(***************************************************************************)
TerminalStatuses == {"success", "failed", "error"}

StatusOf(j) == jobs_status[j].status

RunningJobs == {j \in Jobs : StatusOf(j) = "running"}

\* C14 as stated: a job is in the state it has before its first trigger
\* (idle) whenever it enters running, and reaches success, failed or error
\* only from running.
C14_RunningOnlyFromIdle ==
    [][\A j \in Jobs :
         /\ (StatusOf(j)' = "running" /\ StatusOf(j) # "running") => StatusOf(j) = "none"
         /\ (StatusOf(j)' \in TerminalStatuses /\ StatusOf(j)' # StatusOf(j)) =>
               StatusOf(j) = "running"]_vars

\* C14, amended: the recorded status of a job is never idle; a job has no
\* record before its first trigger, a trigger records running over no record
\* or over the terminal status of the previous run, success, failed and error
\* are recorded only over running, and a completed run leaves its terminal
\* status in the record until the next trigger.
C14_RunningFromNoneOrTerminal ==
    [][\A j \in Jobs :
         /\ StatusOf(j)' \in {"none", "running"} \union TerminalStatuses
         /\ StatusOf(j)' # StatusOf(j) =>
               \/ StatusOf(j)' = "running" /\ StatusOf(j) \in {"none"} \union TerminalStatuses
               \/ StatusOf(j)' \in TerminalStatuses /\ StatusOf(j) = "running"
         /\ (StatusOf(j) \in TerminalStatuses /\ StatusOf(j)' # "running") =>
               StatusOf(j)' = StatusOf(j)]_vars

\* A job runs again: running recorded over the counts of an earlier run.
C14_Witness ==
    \E j \in Jobs :
        /\ StatusOf(j) = "running"
        /\ jobs_status[j].success_count + jobs_status[j].failure_count > 0

\* C15: at most one job has status running, and it is the job whose body
\* the poll loop is inside.
C15_AtMostOneJobRunning ==
    /\ Cardinality(RunningJobs) <= 1
    /\ \A j \in RunningJobs : sched_pc = "in_job" /\ current_job = j
    /\ sched_pc = "in_job" => RunningJobs = {current_job}

\* A job is running while another due job of the same run_pending() waits.
C15_Witness ==
    /\ sched_pc = "in_job"
    /\ batch_left # <<>>
    /\ Head(batch_left).job # current_job
    /\ RunningJobs = {current_job}

\* The terminal state that matches a completion: success for a successful
\* result, failed for a result that reports failure, error for an exception.
MatchingStatus(kind) ==
    CASE kind \in {"dict_all_success", "true"} -> "success"
      [] kind \in {"dict_some_failed", "dict_no_endpoints", "false"} -> "failed"
      [] OTHER -> "error"

JustCompleted == sched_pc = "run_pending" /\ last_result # "none"

\* C16 as stated: when a run has completed, the job's status is the terminal
\* state that matches the way it completed, never running, and the status
\* table has been handed to _save_job_status.
C16_CompletionRecordsMatchingStatus ==
    JustCompleted => StatusOf(current_job) = MatchingStatus(last_result)

\* C17: a handled shutdown signal leads to the exit of the loop, no further
\* iteration of the loop begins after it, and the job that was in flight
\* when it arrived has a terminal status when the loop has exited.
C17_ShutdownExitsAfterInflightJob ==
    /\ stop_seen ~> (sched_pc = "exited")
    /\ [][stop_seen => ticks' = ticks]_vars
    /\ [](sched_pc = "exited" /\ inflight_at_stop # "none" =>
            /\ StatusOf(inflight_at_stop) \in TerminalStatuses
            /\ RunningJobs = {})

\* The loop has exited after a signal that arrived inside a job body.
C17_Witness ==
    /\ sched_pc = "exited"
    /\ stop_seen
    /\ inflight_at_stop = "api_ingestion"
    /\ StatusOf("api_ingestion") \in TerminalStatuses


(***************************************************************************)
(* IngestionOrchestrator.run_full_ingestion                                *)
(***************************************************************************)
\* The phase ran and every result it produced has status success.
EveryResultSuccess(outcome) ==
    /\ outcome.kind = "returned"
    /\ \A s \in DOMAIN outcome.statuses : outcome.statuses[s] = "success"

\* The phase failed entirely: it raised, or every source failed.
FailedEntirely(outcome) ==
    \/ outcome.kind = "raised"
    \/ /\ outcome.kind = "returned"
       /\ \A s \in DOMAIN outcome.statuses : outcome.statuses[s] = "failed"

\* The names of the steps in orch_trace.
TraceEvents == [i \in DOMAIN orch_trace |-> orch_trace[i].event]

\* C18: when the file phase has failed entirely, the API phase has been run
\* by the time the run returns, and the API entry of pipeline_results holds
\* the flag and the results of the API phase's own outcome.
C18_ApiPhaseRunsAfterFailedFilePhase ==
    (orch_pc = "returned" /\ FailedEntirely(csv_outcome)) =>
        /\ api_outcome.kind # "none"
        /\ \E i \in DOMAIN orch_trace : orch_trace[i].event = "api_end"
        /\ pipeline_results.api_ingestion.present
        /\ pipeline_results.api_ingestion.success = EveryResultSuccess(api_outcome)
        /\ pipeline_results.api_ingestion.results.statuses = api_outcome.statuses
        /\ pipeline_results.api_ingestion.results.kind =
              (IF api_outcome.kind = "returned" THEN "results" ELSE "error")

\* The file phase raised and the API phase succeeded for every endpoint.
C18_Witness ==
    /\ orch_pc = "returned"
    /\ csv_outcome.kind = "raised"
    /\ EveryResultSuccess(api_outcome)
    /\ pipeline_results.api_ingestion.success
    /\ ~pipeline_results.csv_ingestion.success

\* C19: when the run has returned, overall_status is success if and only if
\* both phases produced results and every one of them has status success;
\* a failed source or a phase that raised makes it failed.
C19_OverallSuccessIffEveryResultSuccess ==
    orch_pc = "returned" =>
        /\ pipeline_results.overall_status \in {"success", "failed"}
        /\ pipeline_results.overall_status = "success" <=>
              (EveryResultSuccess(csv_outcome) /\ EveryResultSuccess(api_outcome))

\* One endpoint alone failed: the run is failed.
C19_Witness ==
    /\ orch_pc = "returned"
    /\ EveryResultSuccess(csv_outcome)
    /\ api_outcome.kind = "returned"
    /\ api_outcome.statuses["products"] = "success"
    /\ api_outcome.statuses["categories"] = "failed"
    /\ pipeline_results.overall_status = "failed"

PipelineOrder == <<"csv_start", "csv_end", "cooldown_end", "api_start", "api_end", "aggregate">>

\* C20: the steps of a run happen in the order file phase, cooldown, API
\* phase, aggregation, and the API phase starts no sooner than
\* CooldownSeconds after the end of the file phase.
C20_FilePhaseCooldownApiPhaseAggregate ==
    /\ Len(orch_trace) <= Len(PipelineOrder)
    /\ TraceEvents = SubSeq(PipelineOrder, 1, Len(orch_trace))
    /\ Len(orch_trace) >= 4 => orch_trace[4].at >= orch_trace[2].at + CooldownSeconds
    /\ \A i, j \in DOMAIN orch_trace : i <= j => orch_trace[i].at <= orch_trace[j].at
    /\ (orch_pc = "returned" /\ pipeline_results.error = "none") =>
          TraceEvents = PipelineOrder

\* A run that took time in both phases has been aggregated.
C20_Witness ==
    /\ orch_pc = "returned"
    /\ Len(orch_trace) = 6
    /\ orch_trace[2].at = 1
    /\ orch_trace[4].at = 1 + CooldownSeconds
    /\ orch_trace[6].at = 2 + CooldownSeconds

\* C21 as stated: a run of run_full_ingestion that has returned, whatever
\* its outcome (a failure to initialise the ingesters included), has
\* written its pipeline_execution_<timestamp>.json artifact.
C21_EveryRunPersistsItsMetadata ==
    orch_pc = "returned" => pipeline_metadata = "written"

(***************************************************************************)
(* Reading a source file in chunks                                         *)
(***************************************************************************)
BadLines(lines) == {i \in DOMAIN lines : BadLine(lines[i])}

ChunksOf(lines, size) == ReadCsvChunks(lines, size, "events")

ReadReturned == op \in {"events", "item_properties"} /\ pc = "returned"

\* C22 as stated: ingest_events_csv on a file read in several chunks, some
\* of whose lines are malformed, returns status success with records_count
\* the lines less the malformed ones and the duplicates removed, and the
\* data file with its sidecar is in the lake at the path of the run's
\* timestamp.
C22_MalformedLinesNeverAbort ==
    (/\ op = "events"
     /\ pc = "returned"
     /\ Len(ChunksOf(src_lines, chunk_size)) >= 2
     /\ BadLines(src_lines) # {}) =>
        /\ result.status = "success"
        /\ result.records_count =
              Len(src_lines) - Cardinality(BadLines(src_lines)) - result.duplicates_removed
        /\ \E o \in lake :
              /\ o.path = output_file("events", "csv_ingestion", DatetimeNow(now))
              /\ o.path = result.output_file
              /\ o.complete
              /\ o.sidecar

SummaryErrors == {pipeline_results.errors[i] : i \in DOMAIN pipeline_results.errors}

\* The sources of a phase whose result has a status other than success.
FailedResults(outcome) ==
    IF outcome.kind = "returned"
    THEN {s \in DOMAIN outcome.statuses : outcome.statuses[s] # "success"}
    ELSE {}

\* C23 as stated: when the run has returned, a failed result of either
\* phase is counted in the summary and has a message in summary.errors, and
\* a run whose overall_status is failed has a non-empty summary.errors.
C23_NoFailureSilentlyDropped ==
    (orch_pc = "returned" /\ pipeline_results.error = "none") =>
        /\ FailedResults(csv_outcome) # {} =>
              /\ pipeline_results.failed_sources >= 1
              /\ "CSV" \in SummaryErrors
        /\ \A s \in FailedResults(api_outcome) :
              /\ pipeline_results.failed_sources >= 1
              /\ ("API (" \o s \o ")") \in SummaryErrors
        /\ pipeline_results.overall_status = "failed" => SummaryErrors # {}

(***************************************************************************)
(* Readers of a latest file                                                *)
(***************************************************************************)
\* C24 as stated: a reader of a latest file never finds it half written:
\* every read finds the file absent or whole.
C24_ReaderNeverSeesHalfWrittenPointer ==
    \A i \in DOMAIN reader_saw : reader_saw[i].state \in {"absent", "written"}


(***************************************************************************)
(* The delays slept between attempts.                                      *)
(***************************************************************************)
\* C25 as stated: in API requests and in file ingestion alike, the i-th
\* sleep of a call (the one after failed attempt i) lasts the configured
\* retry_delay times i.
C25_EverySleepLinearInAttempt ==
    /\ \A i \in DOMAIN api_sleeps : api_sleeps[i] = ApiRetryDelay * i
    /\ \A i \in DOMAIN csv_sleeps : csv_sleeps[i] = CsvRetryDelay * i

\* C25, amended: make_api_request sleeps retry_delay * a after attempt a,
\* after a 429 answer and after a request exception alike, and every
\* attempt but the last is followed by its sleep; file ingestion sleeps the
\* same retry_delay before every retry, whatever the attempt number.
C25_LinearInApiConstantInFiles ==
    /\ \A i \in DOMAIN api_sleeps :
          /\ api_sleeps[i] = ApiRetryDelay * i
          /\ i \in DOMAIN api_outcomes
          /\ api_outcomes[i] \in {"429", "exception"}
    /\ Len(api_sleeps) + 1 >= Len(api_outcomes)
    /\ \A i \in DOMAIN csv_sleeps :
          /\ csv_sleeps[i] = CsvRetryDelay
          /\ i \in DOMAIN csv_outcomes
          /\ csv_outcomes[i] # "success"
    /\ Len(csv_sleeps) + 1 >= Len(csv_outcomes)

C25_Witness ==
    /\ op = "api" /\ pc = "returned"
    /\ api_outcomes = <<"exception", "429">>
    /\ api_sleeps = <<ApiRetryDelay, ApiRetryDelay * 2>>


(***************************************************************************)
(* The error of a call that used up its attempts.                          *)
(***************************************************************************)
\* The call returned failure from the last iteration of its range.
Exhausted ==
    /\ op = "api" /\ pc = "returned"
    /\ ~api_result.success
    /\ api_retry_attempts >= 1
    /\ Len(api_outcomes) = api_retry_attempts

LastOutcome == api_outcomes[Len(api_outcomes)]

\* C26 as stated: a make_api_request call that used up all its attempts
\* returns the error of its last attempt, when the attempts raised request
\* exceptions and when they were answered with HTTP 429 alike.
C26_ExhaustedCarriesLastError ==
    Exhausted =>
        /\ LastOutcome = "exception"
             => api_result.error = RequestExceptionError(last_wire)
        /\ LastOutcome = "429" => api_result.error = HttpError("429")

\* C26, amended: a make_api_request call that used up all its attempts
\* returns the exception message of its last attempt when that attempt
\* raised a request exception; when the last attempt was answered with HTTP
\* 429 it returns the fixed message "All N attempts failed", which names no
\* attempt's error.
C26_LastExceptionOrAllAttemptsFailed ==
    Exhausted =>
        /\ LastOutcome = "exception"
             => api_result.error = RequestExceptionError(last_wire)
        /\ LastOutcome = "429"
             => api_result.error = AllAttemptsFailed(api_retry_attempts)

C26_Witness ==
    /\ Exhausted
    /\ api_retry_attempts = MaxRetryAttempts
    /\ AllExceptions(api_outcomes)
    /\ last_wire = "read_error"
    /\ api_result.error = RequestExceptionError("read_error")


(***************************************************************************)
(* The file organize_data writes and returns.                              *)
(***************************************************************************)
\* YYYYMMDD_HHMMSS of a datetime of the year 2024, digit by digit.
Digits2(n) == ToString(n \div 10) \o ToString(n % 10)
SecondStamp(ts) ==
    "2024" \o Digits2(ts.month) \o Digits2(ts.day) \o "_"
        \o Digits2(ts.hour) \o Digits2(ts.minute) \o Digits2(ts.second)

\* Two calls name the same data type, source and second.
SameKey(c1, c2) ==
    /\ c1.data_type = c2.data_type
    /\ c1.source = c2.source
    /\ [c1.timestamp EXCEPT !.microsecond = 0] = [c2.timestamp EXCEPT !.microsecond = 0]

\* C27: the path a successful organize_data call returns is
\* <base>/raw/source=<source>/type=<dataType>/timestamp=<ts>/
\* <dataType>_<source>_<ts>.parquet with ts the call's timestamp as
\* YYYYMMDD_HHMMSS; two successful calls of the same data type, source and
\* second return the same path, and the lake holds one file of that path,
\* with the rows of the later call.
C27_OrganizeReturnsDeterministicPath ==
    \A i \in DOMAIN organize_call :
        LET c == organize_call[i]
        IN c.outcome = "returned" =>
             /\ c.returned =
                  "data/raw/source=" \o c.source \o "/type=" \o c.data_type
                      \o "/timestamp=" \o SecondStamp(c.timestamp) \o "/"
                      \o c.data_type \o "_" \o c.source \o "_"
                      \o SecondStamp(c.timestamp) \o ".parquet"
             /\ \A j \in DOMAIN organize_call :
                   (j > i /\ organize_call[j].outcome = "returned"
                       /\ SameKey(c, organize_call[j]))
                     => /\ organize_call[j].returned = c.returned
                        /\ Cardinality({o \in lake : o.path = c.returned}) = 1
                        /\ j = Len(organize_call)
                             => \A o \in lake :
                                   o.path = c.returned => o.rows = organize_call[j].data

C27_Witness ==
    /\ Len(organize_call) = 2
    /\ organize_call[1].outcome = "returned"
    /\ organize_call[2].outcome = "returned"
    /\ organize_call[1].timestamp.microsecond # organize_call[2].timestamp.microsecond
    /\ organize_call[1].data # organize_call[2].data
    /\ SameKey(organize_call[1], organize_call[2])
    /\ organize_call[2].returned =
         "data/raw/source=csv_ingestion/type=events/timestamp=20240111_015901/"
             \o "events_csv_ingestion_20240111_015901.parquet"
    /\ Cardinality(lake) = 1


(***************************************************************************)
(* The sidecar of organize_data.                                           *)
(***************************************************************************)
\* The sidecar a successful call with the arguments of c is to write: same
\* stem as the data file, file_info, data_info and the caller's metadata.
SidecarOf(c) ==
    [path |-> SubSeq(c.returned, 1, Len(c.returned) - Len(".parquet")) \o ".metadata.json",
     file_info |-> [filename |-> c.data_type \o "_" \o c.source \o "_"
                                    \o SecondStamp(c.timestamp) \o ".parquet",
                    path |-> c.returned],
     data_info |-> [rows |-> Len(c.data), data_type |-> c.data_type, source |-> c.source],
     metadata |-> c.metadata.dict]

\* C28 as stated: every successful organize_data call writes the sidecar,
\* whatever the metadata argument is (absent and empty included).
C28_EverySuccessfulCallWritesSidecar ==
    \A i \in DOMAIN organize_call :
        LET c == organize_call[i]
        IN c.outcome = "returned" => c.sidecar = {SidecarOf(c)}

\* C28, amended: a successful organize_data call whose metadata argument is
\* a dict with at least one entry writes the sidecar of the same stem, with
\* file_info, data_info and that metadata; a successful call whose metadata
\* is absent or empty writes no sidecar.
C28_SidecarOnlyWithMetadata ==
    \A i \in DOMAIN organize_call :
        LET c == organize_call[i]
        IN c.outcome = "returned" =>
             c.sidecar = IF c.metadata.given /\ DOMAIN c.metadata.dict # {}
                         THEN {SidecarOf(c)}
                         ELSE {}

C28_Witness ==
    /\ Len(organize_call) = 2
    /\ organize_call[1].outcome = "returned"
    /\ organize_call[1].metadata.dict = [original_file |-> "data/raw/events.csv"]
    /\ \E sc \in organize_call[1].sidecar :
          /\ sc.path = "data/raw/source=csv_ingestion/type=events/timestamp=20240111_015901/"
                           \o "events_csv_ingestion_20240111_015901.metadata.json"
          /\ sc.metadata = [original_file |-> "data/raw/events.csv"]
    /\ organize_call[2].outcome = "returned"
    /\ organize_call[2].metadata = NoMetadata
    /\ organize_call[2].sidecar = {}


(***************************************************************************)
(* The sources of one phase.                                               *)
(***************************************************************************)
\* The sources the phase was to ingest: those with an entry and those left.
SourcesDone == [i \in DOMAIN phase_run.results |-> phase_run.results[i].source]
ConfiguredSources == SourcesDone \o phase_run.pending

\* C30: within one phase the failure of a source does not stop its
\* siblings: a phase that has returned holds one entry for every source it
\* was to ingest, in order, whatever the entries before it say (a failed
\* events ingestion is followed by the item-properties one; an endpoint that
\* fails or raises is followed by the remaining endpoints); while the phase
\* runs, the sources after a failed one are still to be called.
C30_FailedSourceDoesNotStopSiblings ==
    /\ phase_run.phase = "csv" => ConfiguredSources = CsvSourceOrder
    /\ phase_run.phase = "api" => ConfiguredSources \in EndpointConfigs
    /\ phase_run.pc \in {"none", "running", "returned"}
    /\ phase_run.pc = "returned" => phase_run.pending = <<>>
    /\ phase_run.pc = "running" => phase_run.pending # <<>>
    /\ \A i \in DOMAIN phase_run.results :
          phase_run.results[i].status \in {"success", "failed"}

C30_Witness ==
    /\ phase_run.pc = "returned"
    /\ phase_run.phase = "api"
    /\ Len(phase_run.results) = 2
    /\ phase_run.results[1] =
         [source |-> "products", status |-> "failed",
          error |-> "Critical error processing products"]
    /\ phase_run.results[2].source = "categories"
    /\ phase_run.results[2].status = "success"


(***************************************************************************)
(* File ingestion: failures no retry can mend.                             *)
(***************************************************************************)
NonRetryableCsvOutcomes == {"file_not_found", "validation_failed"}

\* C31 as stated: a file-ingestion attempt that fails because the source
\* file does not exist or its structure validation fails is the last
\* attempt of the call: the call has returned status failed, and no sleep
\* follows the attempt.
C31_NonRetryableFileFailureFailsAtOnce ==
    \A i \in DOMAIN csv_outcomes :
        csv_outcomes[i] \in NonRetryableCsvOutcomes =>
            /\ i = Len(csv_outcomes)
            /\ pc = "returned"
            /\ result.status = "failed"
            /\ Len(csv_sleeps) = i - 1


\* C32 as stated: when a run of the csv_ingestion job ends and every file
\* source was there to be ingested successfully, the job's recorded status
\* becomes success and its success_count grows by one.
C32_CsvJobSuccessRecorded ==
    [][(/\ sched_pc = "in_job"
        /\ current_job = "csv_ingestion"
        /\ sched_pc' = "run_pending"
        /\ last_result' = "no_method_sources_ok")
         => /\ StatusOf("csv_ingestion")' = "success"
            /\ jobs_status'["csv_ingestion"].success_count
                 = jobs_status["csv_ingestion"].success_count + 1]_vars


(***************************************************************************)
(* schedule_job: the period registered.                                    *)
(***************************************************************************)
\* The interval triggers a returned schedule_job call registered.
RegisteredIntervalTriggers ==
    {i \in DOMAIN schedule_call.registered : schedule_call.registered[i].kind = "interval"}

\* C33 as stated: schedule_job registers one interval trigger, and its
\* period is parse_interval(interval_str) minutes exactly.
C33_RegisteredPeriodIsParsedInterval ==
    schedule_call.pc = "returned" =>
        /\ Cardinality(RegisteredIntervalTriggers) = 1
        /\ \A i \in RegisteredIntervalTriggers :
              PeriodMinutes(schedule_call.registered[i])
                  = parse_interval(schedule_call.interval_str)


(***************************************************************************)
(* What one file ingestion leaves in the lake.                             *)
(***************************************************************************)
\* C34 as stated: one call of ingest_events_csv or of
\* ingest_item_properties_csv, its retries included, over an empty lake
\* leaves at most one Stored Object in the lake: the batch is not organized
\* whole a second time after a later step of an attempt failed.
C34_OneCallWritesAtMostOneObject ==
    op \in {"events", "item_properties"} => Cardinality({o \in lake : o.complete}) <= 1


\* C35 as stated: over a lake that was empty before the call, an ingestion
\* that returned status failed has left no Stored Object and no latest file
\* behind; one that returned status success names an output path at which
\* the Stored Object is.
C35_FailedResultLeavesLakeUntouched ==
    /\ result.status = "failed" =>
          /\ lake = {}
          /\ \A d \in DataTypes : latest[d] = NoFile
    /\ result.status = "success" =>
          /\ result.output_file # ""
          /\ \E o \in lake : o.path = result.output_file /\ o.complete


(***************************************************************************)
(* The ingestion metadata of an API run.                                   *)
(***************************************************************************)
ApiRunReturned == phase_run.phase = "api" /\ phase_run.pc = "returned" /\ phase_run.saved # <<>>

FailedEntries == {i \in DOMAIN phase_run.results : phase_run.results[i].status = "failed"}

\* C36 as stated: the metadata an API ingestion run has written counts that
\* run only: endpoints_processed + endpoints_failed is the number of
\* endpoints of the run, and endpoints_failed the number of its failed
\* entries, also when the ingester has run before.
C36_ApiRunMetadataDescribesThatRun ==
    ApiRunReturned =>
        /\ phase_run.saved[1].processed + phase_run.saved[1].failed = Len(phase_run.results)
        /\ phase_run.saved[1].failed = Cardinality(FailedEntries)


(***************************************************************************)
(* IngestionScheduler: the run counters                                    *)
(***************************************************************************)
SuccessCount(j) == jobs_status[j].success_count
FailureCount(j) == jobs_status[j].failure_count

\* C37: the step that completes a run of a job adds one to exactly one of
\* its counters, success_count when the status recorded is success and
\* failure_count when it is failed or error; no other step changes a
\* counter, so the counters never go down and their sum is the number of
\* completed runs; and a job whose status is success has no last_error.
C37_CountersCountCompletedRuns ==
    /\ [][\A j \in Jobs :
            IF StatusOf(j) = "running" /\ StatusOf(j)' \in TerminalStatuses
            THEN /\ StatusOf(j)' = "success" =>
                       /\ SuccessCount(j)' = SuccessCount(j) + 1
                       /\ FailureCount(j)' = FailureCount(j)
                 /\ StatusOf(j)' \in {"failed", "error"} =>
                       /\ FailureCount(j)' = FailureCount(j) + 1
                       /\ SuccessCount(j)' = SuccessCount(j)
            ELSE /\ SuccessCount(j)' = SuccessCount(j)
                 /\ FailureCount(j)' = FailureCount(j)]_vars
    /\ [](\A j \in Jobs : StatusOf(j) = "success" => jobs_status[j].last_error = "None")

\* A job has succeeded in the run after a run that failed.
C37_Witness ==
    /\ StatusOf("api_ingestion") = "success"
    /\ SuccessCount("api_ingestion") = 1
    /\ FailureCount("api_ingestion") = 1
    /\ jobs_status["api_ingestion"].last_error = "None"


\* C38 as stated: once the shutdown signal has been handled (the running
\* flag is down), no step starts a job body.
C38_NoJobStartsAfterShutdown ==
    [][stop_seen => ~(sched_pc # "in_job" /\ sched_pc' = "in_job")]_vars


\* C39 as stated: one make_api_request call sleeps at most
\* retry_attempts - 1 times: no sleep follows its last attempt, after a
\* request exception and after an HTTP 429 answer alike.
C39_NoSleepAfterFinalAttempt ==
    (op = "api" /\ api_retry_attempts >= 1)
        => /\ Len(api_sleeps) <= api_retry_attempts - 1
           /\ pc = "returned" => Len(api_sleeps) < Len(api_outcomes)

====
